---- MODULE Spec2Model ----
(***************************************************************************)
(* A model of the scripts of the repository: the paginated kline           *)
(* downloads (download_daily_klines.py, download_latest_14days.py), the    *)
(* per-date download (kline.py), the per-instrument loop of                *)
(* fetch_okx_eth_options.py, the multi-window volatility scan              *)
(* (calculate_multi_timeframe_volatility.py), the implied-volatility       *)
(* bisection with its Black-Scholes pricer (fetch_okx_eth_options.py),     *)
(* the pricing functions of black_scholes_option_calculator.py and         *)
(* option_formula_no_rate.py, the CSV row loops of                         *)
(* calculate_minute_volatility.py and                                      *)
(* calculate_multi_timeframe_volatility.py, and filter_option and          *)
(* get_eth_spot_price of fetch_okx_eth_options.py.                         *)
(*                                                                         *)
(* The scripts share nothing, so each has its own variables, its own       *)
(* initial predicate and next-state relation, and its own specification;   *)
(* the variables of the other scripts idle.                                *)
(***************************************************************************)
EXTENDS Integers, Sequences, FiniteSets, TLC

VARIABLES
    \* fetch_daily_klines / fetch_minute_klines
    fn,             \* which of the two functions runs: "daily" or "minute"
    start_ms,       \* the requested start, in milliseconds
    end_ms,         \* the requested end
    current_start,  \* startTime of the next request
    all_data,       \* the accumulated candles (a candle is its open time, candle[0])
    dl_pc,          \* "loop" while the while-loop runs, "returned" after return
    requests,       \* history: the params of every request issued
    pages,          \* history: every page a request answered with
    dl_failed,      \* history: a request raised
    \* fetch_eth_prices_at_16_beijing (kline.py)
    start_dt,       \* the first date, as a day number
    end_dt,         \* the last date
    current,        \* the date of the next request
    kline_results,  \* results: the rows [date, close_price] accumulated
    k_pc,           \* "loop" or "returned"
    k_log,          \* history: the date and outcome of every request
    \* fetch_all_eth_options (fetch_okx_eth_options.py), the per-instrument loop
    spot_price,     \* the spot price fetched before the loop
    n_instruments,  \* len(instruments)
    opt_i,          \* the loop index i
    options_data,   \* the records appended so far
    opt_pc,         \* "loop" or "returned"
    instrument,     \* the loop variable, and the locals of the last iteration:
    summary,        \*   options_summary.get(inst_id),
    mark_price_data, \*  get_option_mark_price(inst_id),
    ticker,         \*   get_option_ticker(inst_id)
    \* calculate_multi_timeframe_volatility.py
    prices,         \* the close prices read from the CSV
    max_window,     \* max_window
    window,         \* the loop variable
    returns,        \* the returns list of the window last scanned
    results,        \* the records appended so far
    scan_pc,        \* "loop" or "done"
    stdev_calls,    \* history: len(returns) at every call of statistics.stdev
    kw_i,           \* the position of the report's loop in key_windows
    report,         \* history: kw and the record looked up for it, per line printed
    \* calculate_implied_volatility (fetch_okx_eth_options.py)
    market_price,   \* the arguments: market_price, S, K, T, r, option_type,
    iv_S,           \*   max_iterations, tolerance
    iv_K,
    iv_T,           \* T, reassigned by T = max(T, min_T)
    iv_T_arg,       \* history: T as passed
    iv_r,
    option_type,
    max_iterations,
    tolerance,
    vol_low,        \* the locals of the bisection
    vol_high,
    vol_mid,
    price_low,
    price_high,
    iv_i,           \* the loop variable i of the bisection
    iv_pc,          \* "start", "bounds", "bisect" or "returned"
    iv_result,      \* the value returned
    vol_high_0,     \* history: vol_high when the bisection starts
    pricer_calls,   \* history: the T and sigma of every pricer evaluation
    \* one call of a pricing function
    pr_impl,        \* the file of the function: "calculator", "okx" or "no_rate"
    pr_fn,          \* the function called
    pr_S,           \* the arguments S (S0, current_price), K (strike), T, r, sigma
    pr_K,
    pr_T,
    pr_r,
    pr_sigma,
    pr_x,           \* the argument of normal_cdf
    pr_num_samples, \* the argument num_samples of expected_call_price_at_half_T
    pr_pc,          \* "start" or "done"
    pr_call,        \* what the call pricer handed back to the put pricer
    pr_result,      \* what the function returned or raised
    call_prices,    \* call_prices_array, as expected_call_price_at_half_T returns it
    np_random_state, \* the state of numpy's global random number generator
    \* the row loops of calculate_minute_volatility.py and of
    \* calculate_multi_timeframe_volatility.py (which fills prices, above)
    loader,         \* which of the two scripts runs: "minute" or "multi"
    fieldnames,     \* the columns the header of the CSV file names
    csv_rows,       \* the rows csv.DictReader yields
    row_i,          \* the number of rows read so far
    price_changes,  \* the lists of calculate_minute_volatility.py
    data_rows,
    timestamps,     \* the list filled next to prices
    ld_pc,          \* "loop", "done" after the last row, "raised"
    ld_raised,      \* the exception that left the loop, or "none"
    \* one call of filter_option (fetch_okx_eth_options.py)
    fo_spot_price,  \* the arguments spot_price, strike, option_type
    fo_strike,
    fo_option_type,
    fo_result,      \* the value returned
    fo_pc,          \* "start" or "done"
    \* get_eth_spot_price (fetch_okx_eth_options.py)
    sp_i,           \* the number of symbols tried so far
    sp_requests,    \* history: the symbol of every request issued
    sp_answers,     \* history: what every request came to
    sp_result,      \* the value returned
    sp_pc,          \* "loop" or "returned"
    \* every download loop
    events          \* history: "req" per HTTP request, "sleep" per time.sleep

vars_dl == <<fn, start_ms, end_ms, current_start, all_data, dl_pc, requests, pages, dl_failed>>

vars_k == <<start_dt, end_dt, current, kline_results, k_pc, k_log>>

vars_opt == <<spot_price, n_instruments, opt_i, options_data, opt_pc, instrument, summary,
              mark_price_data, ticker>>

vars_scan == <<prices, max_window, window, returns, results, scan_pc, stdev_calls,
               kw_i, report>>

iv_args == <<market_price, iv_S, iv_K, iv_T_arg, iv_r, option_type, max_iterations, tolerance>>

vars_iv == <<iv_args, iv_T, vol_low, vol_high, vol_mid, price_low, price_high, iv_i, iv_pc,
             iv_result, vol_high_0, pricer_calls>>

pr_args == <<pr_impl, pr_fn, pr_S, pr_K, pr_T, pr_r, pr_sigma, pr_x, pr_num_samples>>

vars_pr == <<pr_args, pr_pc, pr_call, pr_result, call_prices, np_random_state>>

vars_ld == <<loader, fieldnames, csv_rows, row_i, price_changes, data_rows, timestamps, ld_pc,
             ld_raised>>

vars_fo == <<fo_spot_price, fo_strike, fo_option_type, fo_result, fo_pc>>

vars_sp == <<sp_i, sp_requests, sp_answers, sp_result, sp_pc>>

vars == <<vars_dl, vars_k, vars_opt, vars_scan, vars_iv, vars_pr, vars_ld, vars_fo, vars_sp,
          events>>

\* What each script leaves alone: the variables of the other scripts.
not_dl == <<vars_k, vars_opt, vars_scan, vars_iv, vars_pr, vars_ld,
          vars_fo, vars_sp>>

not_k == <<vars_dl, vars_opt, vars_scan, vars_iv, vars_pr, vars_ld,
          vars_fo, vars_sp>>

not_opt == <<vars_dl, vars_k, vars_scan, vars_iv, vars_pr, vars_ld,
          vars_fo, vars_sp>>

not_scan == <<vars_dl, vars_k, vars_opt, vars_iv, vars_pr, vars_ld,
          vars_fo, vars_sp, events>>

not_iv == <<vars_dl, vars_k, vars_opt, vars_scan, vars_pr, vars_ld,
          vars_fo, vars_sp, events>>

not_pr == <<vars_dl, vars_k, vars_opt, vars_scan, vars_iv, vars_ld,
          vars_fo, vars_sp, events>>

\* The row loops leave alone all but prices of the scan.
not_ld == <<vars_dl, vars_k, vars_opt, max_window, window, returns, results, scan_pc,
            stdev_calls, kw_i, report, vars_iv, vars_pr, vars_fo, vars_sp, events>>

not_fo == <<vars_dl, vars_k, vars_opt, vars_scan, vars_iv, vars_pr, vars_ld, vars_sp, events>>

not_sp == <<vars_dl, vars_k, vars_opt, vars_scan, vars_iv, vars_pr, vars_ld, vars_fo, events>>

----------------------------------------------------------------------------
(* Helpers on sequences. *)

Last(s) == s[Len(s)]

RECURSIVE Flatten(_)
Flatten(ss) == IF ss = <<>> THEN <<>> ELSE Head(ss) \o Flatten(Tail(ss))

StrictlyIncreasing(s) == \A i \in 1..(Len(s) - 1) : s[i] < s[i + 1]

Min(a, b) == IF a <= b THEN a ELSE b

Max(a, b) == IF a >= b THEN a ELSE b

----------------------------------------------------------------------------
(* fetch_daily_klines (download_daily_klines.py) and fetch_minute_klines   *)
(* (download_latest_14days.py): the same loop, over a different interval.  *)

\* Bounds: open times and requested dates range over 0..MaxTime; a run is cut
\* after MaxRequests requests (a server answering with old candles would keep
\* the loop going forever).
MaxTime == 3

MaxRequests == 2

Times == 0..MaxTime

\* limit = 1000 in the source: the page size asked for, and the most candles
\* a page holds. Scaled down so that the pages can be enumerated.
limit == 2

\* The length of one candle in the model's time unit: 24*60*60*1000 ms for
\* interval "1d", 60*1000 ms for "1m", scaled to 2 and 1.
IntervalMs(f) == IF f = "daily" THEN 2 ELSE 1

\* Every JSON list the server may answer with: at most limit candles, in any
\* order and of any open time (a server is not bound to honour startTime).
AllPages == UNION {[1..n -> Times] : n \in 0..limit}

\* current_end = min(current_start + (limit - 1) * interval, end_ms)
current_end == Min(current_start + (limit - 1) * IntervalMs(fn), end_ms)

params == [startTime |-> current_start, endTime |-> current_end]

InitDl ==
    /\ fn \in {"daily", "minute"}
    /\ start_ms \in Times
    /\ end_ms \in Times
    /\ current_start = start_ms
    /\ all_data = <<>>
    /\ dl_pc = "loop"
    /\ requests = <<>>
    /\ pages = <<>>
    /\ dl_failed = FALSE

IdleDl ==
    /\ fn = "daily"
    /\ start_ms = 0
    /\ end_ms = 0
    /\ current_start = 0
    /\ all_data = <<>>
    /\ dl_pc = "returned"
    /\ requests = <<>>
    /\ pages = <<>>
    /\ dl_failed = FALSE

\* The guard of one loop iteration: while current_start < end_ms.
InLoop ==
    /\ dl_pc = "loop"
    /\ current_start < end_ms
    /\ Len(requests) < MaxRequests

\* FetchFail without the break: the loop goes round again.
FetchFail_NoBreak ==
    /\ InLoop
    /\ requests' = Append(requests, params)
    /\ events' = Append(events, "req")
    /\ dl_failed' = TRUE
    /\ dl_pc' = "loop"
    /\ UNCHANGED <<fn, start_ms, end_ms, current_start, all_data, pages>>
    /\ UNCHANGED not_dl

\* requests.get / raise_for_status / resp.json() raises: the except clause
\* prints and breaks.
FetchFail ==
    /\ InLoop
    /\ requests' = Append(requests, params)
    /\ events' = Append(events, "req")
    /\ dl_failed' = TRUE
    /\ dl_pc' = "returned"
    /\ UNCHANGED <<fn, start_ms, end_ms, current_start, all_data, pages>>
    /\ UNCHANGED not_dl

\* The request succeeds with an empty list: if not data: break.
FetchEmpty ==
    /\ InLoop
    /\ requests' = Append(requests, params)
    /\ pages' = Append(pages, <<>>)
    /\ events' = Append(events, "req")
    /\ dl_pc' = "returned"
    /\ UNCHANGED <<fn, start_ms, end_ms, current_start, all_data, dl_failed>>
    /\ UNCHANGED not_dl

\* FetchPage with current_start = last_timestamp, without the + 1.
FetchPage_NoAdvance ==
    /\ InLoop
    /\ \E data \in AllPages \ {<<>>} :
        /\ requests' = Append(requests, params)
        /\ pages' = Append(pages, data)
        /\ all_data' = all_data \o data
        /\ current_start' = Last(data)
        /\ events' = events \o <<"req", "sleep">>
    /\ dl_pc' = "loop"
    /\ UNCHANGED <<fn, start_ms, end_ms, dl_failed>>
    /\ UNCHANGED not_dl

\* The request succeeds with a non-empty page: extend, move current_start
\* past the last candle, sleep, and go round the loop.
FetchPage ==
    /\ InLoop
    /\ \E data \in AllPages \ {<<>>} :
        /\ requests' = Append(requests, params)
        /\ pages' = Append(pages, data)
        /\ all_data' = all_data \o data
        /\ current_start' = Last(data) + 1
        /\ events' = events \o <<"req", "sleep">>
    /\ dl_pc' = "loop"
    /\ UNCHANGED <<fn, start_ms, end_ms, dl_failed>>
    /\ UNCHANGED not_dl

\* The while condition is false: return all_data.
LoopExit ==
    /\ dl_pc = "loop"
    /\ ~(current_start < end_ms)
    /\ dl_pc' = "returned"
    /\ UNCHANGED <<fn, start_ms, end_ms, current_start, all_data, requests, pages, dl_failed, events>>
    /\ UNCHANGED not_dl

NextDl == FetchFail \/ FetchEmpty \/ FetchPage \/ LoopExit

\* The loop against a server whose every non-empty page ends with a candle
\* at or after the startTime asked for. Such a run needs no cut: the guard is
\* the while condition alone.
WhileCondition ==
    /\ dl_pc = "loop"
    /\ current_start < end_ms

PagesFromStart == {data \in AllPages \ {<<>>} : Last(data) >= current_start}

\* The request raises: print and break.
RequestFails ==
    /\ WhileCondition
    /\ requests' = Append(requests, params)
    /\ events' = Append(events, "req")
    /\ dl_failed' = TRUE
    /\ dl_pc' = "returned"
    /\ UNCHANGED <<fn, start_ms, end_ms, current_start, all_data, pages>>
    /\ UNCHANGED not_dl

\* if not data: break
PageEmpty ==
    /\ WhileCondition
    /\ requests' = Append(requests, params)
    /\ pages' = Append(pages, <<>>)
    /\ events' = Append(events, "req")
    /\ dl_pc' = "returned"
    /\ UNCHANGED <<fn, start_ms, end_ms, current_start, all_data, dl_failed>>
    /\ UNCHANGED not_dl

\* PageFromStart with current_start = last_timestamp, without the + 1.
PageFromStart_NoAdvance ==
    /\ WhileCondition
    /\ \E data \in PagesFromStart :
        /\ requests' = Append(requests, params)
        /\ pages' = Append(pages, data)
        /\ all_data' = all_data \o data
        /\ current_start' = Last(data)
        /\ events' = events \o <<"req", "sleep">>
    /\ dl_pc' = "loop"
    /\ UNCHANGED <<fn, start_ms, end_ms, dl_failed>>
    /\ UNCHANGED not_dl

\* A non-empty page: extend, current_start = last_timestamp + 1, sleep.
PageFromStart ==
    /\ WhileCondition
    /\ \E data \in PagesFromStart :
        /\ requests' = Append(requests, params)
        /\ pages' = Append(pages, data)
        /\ all_data' = all_data \o data
        /\ current_start' = Last(data) + 1
        /\ events' = events \o <<"req", "sleep">>
    /\ dl_pc' = "loop"
    /\ UNCHANGED <<fn, start_ms, end_ms, dl_failed>>
    /\ UNCHANGED not_dl

NextDlFromStart == RequestFails \/ PageEmpty \/ PageFromStart \/ LoopExit

----------------------------------------------------------------------------
(* fetch_eth_prices_at_16_beijing (kline.py): one request per date.        *)

\* Bound: dates are day numbers in 0..MaxDay.
MaxDay == 3

Days == 0..MaxDay

\* The close prices candle[4] a candle may carry.
ClosePrices == {1, 2}

InitK ==
    /\ start_dt \in Days
    /\ end_dt \in Days
    /\ current = start_dt
    /\ kline_results = <<>>
    /\ k_pc = "loop"
    /\ k_log = <<>>

IdleK ==
    /\ start_dt = 0
    /\ end_dt = 0
    /\ current = 0
    /\ kline_results = <<>>
    /\ k_pc = "returned"
    /\ k_log = <<>>

\* The tail of every iteration, after the try block: current += 1 day, the
\* prints, time.sleep(0.5).
EndOfIteration ==
    /\ current' = current + 1
    /\ events' = events \o <<"req", "sleep">>
    /\ k_pc' = "loop"
    /\ UNCHANGED <<start_dt, end_dt>>
    /\ UNCHANGED not_k

\* DateFail with a break in the except clause.
DateFail_Break ==
    /\ k_pc = "loop"
    /\ current <= end_dt
    /\ k_log' = Append(k_log, [date |-> current, outcome |-> "fail", close |-> 0])
    /\ events' = Append(events, "req")
    /\ k_pc' = "returned"
    /\ UNCHANGED <<start_dt, end_dt, current, kline_results>>
    /\ UNCHANGED not_k

\* The request for the current date raises: the except clause prints, and
\* the iteration goes on to its tail.
DateFail ==
    /\ k_pc = "loop"
    /\ current <= end_dt
    /\ k_log' = Append(k_log, [date |-> current, outcome |-> "fail", close |-> 0])
    /\ UNCHANGED kline_results
    /\ EndOfIteration

\* The request succeeds with an empty list: nothing is appended.
DateEmpty ==
    /\ k_pc = "loop"
    /\ current <= end_dt
    /\ k_log' = Append(k_log, [date |-> current, outcome |-> "empty", close |-> 0])
    /\ UNCHANGED kline_results
    /\ EndOfIteration

\* The request succeeds with a candle: append [date, candle[4]].
DateCandle ==
    /\ k_pc = "loop"
    /\ current <= end_dt
    /\ \E close_price \in ClosePrices :
        /\ k_log' = Append(k_log, [date |-> current, outcome |-> "ok", close |-> close_price])
        /\ kline_results' = Append(kline_results, <<current, close_price>>)
    /\ EndOfIteration

\* while current <= end_dt is false: return results.
DateLoopExit ==
    /\ k_pc = "loop"
    /\ ~(current <= end_dt)
    /\ k_pc' = "returned"
    /\ UNCHANGED <<start_dt, end_dt, current, kline_results, k_log, events>>
    /\ UNCHANGED not_k

NextK == DateFail \/ DateEmpty \/ DateCandle \/ DateLoopExit

----------------------------------------------------------------------------
(* fetch_all_eth_options (fetch_okx_eth_options.py): the per-instrument    *)
(* loop. The spot price, the instrument list and the summary are fetched   *)
(* before the loop; the model starts where the loop starts.               *)

\* Bound: the number of instruments in the list.
MaxInstruments == 2

\* Prices in dollars: the spot, and strikes on both sides of it, within and
\* beyond 1% of it.
Spots == {100}

Strikes == {98, 99, 100, 101, 102}

\* str.upper() on the option types an instrument may carry.
Upper(t) ==
    CASE t = "c" -> "C"
      [] t = "p" -> "P"
      [] t = "call" -> "CALL"
      [] t = "put" -> "PUT"
      [] t = "Call" -> "CALL"
      [] t = "Put" -> "PUT"
      [] OTHER -> t

OptTypes == {"C", "P", "c", "CALL", "PUT", "X"}

\* An instrument of the list. shape "fields": stk, optType and expTime are all
\* present; "id": one is missing and the instId parses (it carries the same
\* strike and type); "bad": neither works; "noid": instId is empty.
Instruments ==
    [shape : {"fields"}, stk : Strikes, optType : OptTypes]
        \cup [shape : {"id"}, stk : {99, 101}, optType : {"C", "P"}]
        \cup [shape : {"bad", "noid"}, stk : {0}, optType : {""}]

\* parse_option_symbol, without the expiry fields (they depend on the clock and
\* decide nothing): both parsing paths upper-case the type; the fallback is
\* strike 0.0 and type "UNKNOWN".
parse_option_symbol(instrument_data) ==
    IF instrument_data.shape \in {"fields", "id"}
    THEN [strike |-> instrument_data.stk, option_type |-> Upper(instrument_data.optType)]
    ELSE [strike |-> 0, option_type |-> "UNKNOWN"]

\* filter_option without is_itm_near: the options out of the money alone.
filter_option_OtmOnly(spot, strike, opt_type_in) ==
    LET opt_type_upper == Upper(opt_type_in)
    IN  IF opt_type_upper \in {"C", "CALL"}
        THEN strike > spot
        ELSE IF opt_type_upper \in {"P", "PUT"}
        THEN strike < spot
        ELSE FALSE

\* filter_option: strike >= spot_price * 0.99 is strike * 100 >= spot_price * 99.
filter_option(spot, strike, opt_type_in) ==
    LET opt_type_upper == Upper(opt_type_in)
    IN  IF opt_type_upper \in {"C", "CALL"}
        THEN (strike > spot) \/ (strike <= spot /\ strike * 100 >= spot * 99)
        ELSE IF opt_type_upper \in {"P", "PUT"}
        THEN (strike < spot) \/ (strike >= spot /\ strike * 100 <= spot * 101)
        ELSE FALSE

\* What a string field of a response may hold: missing or empty ("empty"),
\* not a number ("bad"), or a number, in units of 1e-6; and None ("none")
\* where the lookup or the request yields no dict at all.
NoAnswers == [kind : {"none", "empty", "bad"}, val : {0}]

\* options_summary.get(inst_id) and its bidVol.
SummaryAnswers == NoAnswers \cup [kind : {"num"}, val : {0, 725000}]

\* get_option_mark_price(inst_id) and its markPx.
MarkAnswers == NoAnswers \cup [kind : {"num"}, val : {0, 50000}]

\* get_option_ticker(inst_id) and its bidPx.
TickerAnswers == NoAnswers \cup [kind : {"num"}, val : {0, 100, 50000}]

\* A local the iteration has not assigned: the lookup or the request was
\* not made.
Unassigned == [kind |-> "unassigned", val |-> 0]

NoInstrument == [shape |-> "unassigned", stk |-> 0, optType |-> ""]

InitOpt ==
    /\ spot_price \in Spots
    /\ n_instruments \in 1..MaxInstruments
    /\ opt_i = 0
    /\ options_data = <<>>
    /\ opt_pc = "loop"
    /\ instrument = NoInstrument
    /\ summary = Unassigned
    /\ mark_price_data = Unassigned
    /\ ticker = Unassigned

IdleOpt ==
    /\ spot_price = 0
    /\ n_instruments = 0
    /\ opt_i = 0
    /\ options_data = <<>>
    /\ opt_pc = "returned"
    /\ instrument = [shape |-> "unassigned", stk |-> 0, optType |-> ""]
    /\ summary = [kind |-> "unassigned", val |-> 0]
    /\ mark_price_data = [kind |-> "unassigned", val |-> 0]
    /\ ticker = [kind |-> "unassigned", val |-> 0]

\* The HTTP requests and sleeps of one iteration, given how far it gets:
\* "early" (a continue before the mark-price request), "mark" (a continue after
\* it), "ticker" (a continue after the ticker request), "append" (the record is
\* appended and the iteration runs to its end, time.sleep(0.1)).
IterationEvents(reached) ==
    CASE reached = "early" -> <<>>
      [] reached = "mark" -> <<"req">>
      [] reached = "ticker" -> <<"req", "req">>
      [] reached = "append" -> <<"req", "req", "sleep">>

\* The checks before the summary is looked up: instId and filter_option.
StopsBeforeSummary(inst) ==
    LET option_info == parse_option_symbol(inst)
    IN  \/ inst.shape = "noid"
        \/ ~filter_option(spot_price, option_info.strike, option_info.option_type)

\* The checks before the mark-price request: instId, filter_option, the
\* summary entry and its bidVol.
StopsEarly(inst, summ) ==
    \/ StopsBeforeSummary(inst)
    \/ summ.kind \in {"none", "empty", "bad"}
    \/ summ.val <= 0

\* The checks on the mark price.
StopsAtMark(mark) ==
    \/ mark.kind \in {"none", "empty", "bad"}
    \/ mark.val <= 0

\* The checks on the bid price without the one of 0.000100.
StopsAtTicker_NoInvalidQuote(tick) ==
    \/ tick.kind \in {"none", "empty", "bad"}
    \/ tick.val <= 0

\* The checks on the bid price; abs(bid_price - 0.000100) < 1e-9 is equality
\* at a resolution of 1e-6.
StopsAtTicker(tick) ==
    \/ tick.kind \in {"none", "empty", "bad"}
    \/ tick.val <= 0
    \/ tick.val = 100

\* The record appended for an instrument that passes every check.
option_data(inst, summ, mark, tick) ==
    LET option_info == parse_option_symbol(inst)
        is_itm == IF option_info.option_type = "CALL"
                  THEN option_info.strike < spot_price
                  ELSE option_info.strike > spot_price
    IN  [strike |-> option_info.strike,
         option_type |-> option_info.option_type,
         mark_price |-> mark.val,
         bid_price |-> tick.val,
         implied_volatility |-> summ.val \div 100,
         spot_price |-> spot_price,
         moneyness |-> IF is_itm THEN "ITM" ELSE "OTM"]

\* How an iteration ends once it has got as far as `reached`, with the locals
\* it assigned on the way.
IterationEnds(reached, inst, summ, mark, tick, record) ==
    /\ options_data' = IF reached = "append" THEN Append(options_data, record) ELSE options_data
    /\ events' = events \o IterationEvents(reached)
    /\ instrument' = inst
    /\ summary' = summ
    /\ mark_price_data' = mark
    /\ ticker' = tick

\* One iteration of the loop over instruments; the mark-price and ticker
\* requests are made only when the checks before them pass.
ProcessInstrument ==
    /\ opt_pc = "loop"
    /\ opt_i < n_instruments
    /\ \E inst \in Instruments :
        IF StopsBeforeSummary(inst)
        THEN IterationEnds("early", inst, Unassigned, Unassigned, Unassigned, <<>>)
        ELSE \E summ \in SummaryAnswers :
            IF StopsEarly(inst, summ)
            THEN IterationEnds("early", inst, summ, Unassigned, Unassigned, <<>>)
            ELSE \E mark \in MarkAnswers :
                IF StopsAtMark(mark)
                THEN IterationEnds("mark", inst, summ, mark, Unassigned, <<>>)
                ELSE \E tick \in TickerAnswers :
                    IF StopsAtTicker(tick)
                    THEN IterationEnds("ticker", inst, summ, mark, tick, <<>>)
                    ELSE IterationEnds("append", inst, summ, mark, tick,
                                       option_data(inst, summ, mark, tick))
    /\ opt_i' = opt_i + 1
    /\ UNCHANGED <<spot_price, n_instruments, opt_pc>>
    /\ UNCHANGED not_opt

\* The list is exhausted: return options_data.
OptionsReturn ==
    /\ opt_pc = "loop"
    /\ ~(opt_i < n_instruments)
    /\ opt_pc' = "returned"
    /\ UNCHANGED <<spot_price, n_instruments, opt_i, options_data, instrument, summary,
                   mark_price_data, ticker, events>>
    /\ UNCHANGED not_opt

NextOpt == ProcessInstrument \/ OptionsReturn

----------------------------------------------------------------------------
(* Arithmetic. The scripts compute in floating point; the model computes   *)
(* in fixed point, every operation rounding to the grid as a float         *)
(* operation rounds to its own.                                            *)

\* F(v) and F(u, v), the arguments evaluated once each before F is applied,
\* as Python evaluates the arguments of a call before the call.
Eval1(v, F(_)) == CHOOSE y \in {F(x) : x \in {v}} : TRUE

Eval2(u, v, F(_, _)) == CHOOSE y \in {F(a, b) : a \in {u}, b \in {v}} : TRUE

Abs(x) == IF x < 0 THEN -x ELSE x

Sign(x) == IF x < 0 THEN -1 ELSE 1

\* a / b rounded to the nearest integer, b > 0.
RoundDiv(a, b) == (2 * a + b) \div (2 * b)

\* The integer square root: the largest y with y * y <= x, by Newton's
\* iteration from above.
RECURSIVE NewtonSqrt(_, _)
NewtonSqrt(x, y) ==
    LET z == (y + x \div y) \div 2
    IN  IF z >= y THEN y ELSE NewtonSqrt(x, z)

ISqrt(x) == IF x <= 0 THEN 0 ELSE NewtonSqrt(x, x)

RECURSIVE Sum(_)
Sum(s) == IF s = <<>> THEN 0 ELSE Head(s) + Sum(Tail(s))

\* Reals are held in units of 1e-6: the real x is the integer x * Q.
Q == 10 ^ 6

\* Magnitudes are clamped at FxSat (40.0) where a float would go on growing:
\* it only matters for d1 and d2, where the normal CDF has long been 0 or 1 at
\* this resolution.
FxSat == 40 * Q

Clamp(v) ==
    Eval1(v, LAMBDA x : IF x > FxSat THEN FxSat ELSE IF x < -FxSat THEN -FxSat ELSE x)

\* a * b for a, b >= 0, in three-digit limbs so that no intermediate product
\* leaves 32 bits.
MulPos(a, b) ==
    LET a1 == a \div 1000
        a0 == a % 1000
        b1 == b \div 1000
        b0 == b % 1000
    IN  a1 * b1 + (a1 * b0 + a0 * b1 + (a0 * b0 + 500) \div 1000 + 500) \div 1000

\* a * b
FxMul(u, v) == Eval2(u, v, LAMBDA a, b : Sign(a) * Sign(b) * MulPos(Abs(a), Abs(b)))

\* The digits of r / b after the point, r < b, by long division.
RECURSIVE FracDigits(_, _, _)
FracDigits(v, b, n) ==
    Eval1(v, LAMBDA r :
        IF n = 0 THEN 0
        ELSE (10 ^ (n - 1)) * ((r * 10) \div b) + FracDigits((r * 10) % b, b, n - 1))

\* a / b for a >= 0, b > 0.
DivPos(a, b) ==
    IF a \div b >= FxSat \div Q THEN FxSat
    ELSE (a \div b) * Q + FracDigits(a % b, b, 6)

\* a / b, b /= 0.
FxDiv(u, v) == Eval2(u, v, LAMBDA a, b : Sign(a) * Sign(b) * DivPos(Abs(a), Abs(b)))

\* math.sqrt(x), x >= 0: Newton's iteration from above.
RECURSIVE SqrtFrom(_, _)
SqrtFrom(x, y) ==
    Eval1((y + FxDiv(x, y)) \div 2, LAMBDA z : IF z >= y THEN y ELSE SqrtFrom(x, z))

FxSqrt(x) == IF x <= 0 THEN 0 ELSE SqrtFrom(x, Max(x, Q))

\* The Taylor series of exp(x) for |x| <= 1/2: term n is term (n-1) * x / n.
RECURSIVE ExpSeries(_, _, _)
ExpSeries(x, v, n) ==
    Eval1(v, LAMBDA term :
        IF term = 0 THEN 0
        ELSE term + ExpSeries(x, RoundDiv(FxMul(term, x), n), n + 1))

\* math.exp(x): exp(x) = exp(x / 2) ^ 2 brings the argument into the range of
\* the series; below -15 the result is less than the resolution.
RECURSIVE FxExp(_)
FxExp(v) ==
    Eval1(v, LAMBDA x :
        IF x <= -15 * Q THEN 0
        ELSE IF Abs(x) > Q \div 2
        THEN Eval1(FxExp(x \div 2), LAMBDA h : FxMul(h, h))
        ELSE ExpSeries(x, Q, 1))

\* The series of ln(x) = 2 * (z + z^3/3 + z^5/5 + ...), z = (x - 1) / (x + 1).
RECURSIVE LnSeries(_, _, _)
LnSeries(zz, v, n) ==
    Eval1(v, LAMBDA power :
        IF power = 0 THEN 0
        ELSE RoundDiv(power, n) + LnSeries(zz, FxMul(power, zz), n + 2))

Ln2 == 693147

\* math.log(x), x > 0: ln(x) = ln(x / 2) + ln 2 brings the argument between
\* 2/3 and 3/2.
RECURSIVE FxLn(_)
FxLn(v) ==
    Eval1(v, LAMBDA x :
        IF 2 * x > 3 * Q THEN Ln2 + FxLn(x \div 2)
        ELSE IF 3 * x < 2 * Q THEN FxLn(2 * x) - Ln2
        ELSE Eval1(FxDiv(x - Q, x + Q), LAMBDA z :
                 Eval1(FxMul(z, z), LAMBDA zz : 2 * LnSeries(zz, z, 1))))

----------------------------------------------------------------------------
(* calculate_multi_timeframe_volatility.py: the scan over window sizes.    *)

\* Bounds: the series holds at most MaxN prices; max_window (1440 * 7 in the
\* script, against a series of hundreds of thousands of rows) ranges over
\* 1..MaxW, so that both max_window < len(prices) and max_window >=
\* len(prices) occur, and a series of MaxN prices has a record for the key
\* window 5.
MaxN == 6

MaxW == 5

\* Close prices in dollars, all positive (a price of 0 makes the division
\* raise, and the script stops without a result).
PriceValues == {99, 100, 102}

\* Percentages are held in units of 1e-3 percent.
PctScale == 10 ^ 3

\* ((prices[i] - prices[i - window]) / prices[i - window]) * 100
PctReturn(p_now, p_then) == RoundDiv((p_now - p_then) * 100 * PctScale, p_then)

\* Returns with the range starting one index late: range(window + 1, len(prices)).
Returns_LateStart(w) ==
    [k \in 1..(Len(prices) - w - 1) |-> PctReturn(prices[w + k + 1], prices[k + 1])]

\* The list comprehension: i ranges over range(window, len(prices)), 0-based;
\* the k-th return (1-based) has i = window + k - 1, which is prices[window + k]
\* against prices[k] in 1-based indexing.
Returns(w) ==
    [k \in 1..(Len(prices) - w) |-> PctReturn(prices[w + k], prices[k])]

\* statistics.mean
mean(xs) == RoundDiv(Sum(xs), Len(xs))

\* statistics.stdev: the square root of the sample variance (n - 1 in the
\* denominator).
stdev(xs) ==
    LET m == mean(xs)
        ss == Sum([k \in 1..Len(xs) |-> (xs[k] - m) * (xs[k] - m)])
    IN  ISqrt(RoundDiv(ss, Len(xs) - 1))

\* round(window / 1440, 4), in units of 1e-4 days.
Window_Days(w) == RoundDiv(w * 10000, 1440)

\* NewRecords without the elif branch: a single return gets no record.
NewRecords_NoSingle(w, rets) ==
    IF Len(rets) > 1
    THEN <<[Window_Minutes |-> w,
            Window_Days |-> Window_Days(w),
            Mean_Pct |-> mean(rets),
            StdDev_Pct |-> stdev(rets),
            Sample_Count |-> Len(rets)]>>
    ELSE <<>>

\* NewRecords with the single return's record carrying the wrong mean.
NewRecords_ZeroMean(w, rets) ==
    IF Len(rets) > 1
    THEN <<[Window_Minutes |-> w,
            Window_Days |-> Window_Days(w),
            Mean_Pct |-> mean(rets),
            StdDev_Pct |-> stdev(rets),
            Sample_Count |-> Len(rets)]>>
    ELSE IF Len(rets) = 1
    THEN <<[Window_Minutes |-> w,
            Window_Days |-> Window_Days(w),
            Mean_Pct |-> 0,
            StdDev_Pct |-> 0,
            Sample_Count |-> 1]>>
    ELSE <<>>

\* NewRecords with the first branch taken from three returns on: a window
\* with two returns gets no record.
NewRecords_NoPair(w, rets) ==
    IF Len(rets) > 2
    THEN <<[Window_Minutes |-> w,
            Window_Days |-> Window_Days(w),
            Mean_Pct |-> mean(rets),
            StdDev_Pct |-> stdev(rets),
            Sample_Count |-> Len(rets)]>>
    ELSE IF Len(rets) = 1
    THEN <<[Window_Minutes |-> w,
            Window_Days |-> Window_Days(w),
            Mean_Pct |-> rets[1],
            StdDev_Pct |-> 0,
            Sample_Count |-> 1]>>
    ELSE <<>>

\* The if / elif on len(returns): the records the iteration appends.
NewRecords(w, rets) ==
    IF Len(rets) > 1
    THEN <<[Window_Minutes |-> w,
            Window_Days |-> Window_Days(w),
            Mean_Pct |-> mean(rets),
            StdDev_Pct |-> stdev(rets),
            Sample_Count |-> Len(rets)]>>
    ELSE IF Len(rets) = 1
    THEN <<[Window_Minutes |-> w,
            Window_Days |-> Window_Days(w),
            Mean_Pct |-> rets[1],
            StdDev_Pct |-> 0,
            Sample_Count |-> 1]>>
    ELSE <<>>

InitScan ==
    /\ prices \in UNION {[1..n -> PriceValues] : n \in 0..MaxN}
    /\ max_window \in 1..MaxW
    /\ window = 1
    /\ returns = <<>>
    /\ results = <<>>
    /\ scan_pc = "loop"
    /\ stdev_calls = <<>>
    /\ kw_i = 1
    /\ report = <<>>

\* One iteration of for window in range(1, max_window + 1) that does not
\* break.
ScanWindow ==
    /\ scan_pc = "loop"
    /\ window <= max_window
    /\ ~(window > Len(prices))
    /\ returns' = Returns(window)
    /\ results' = results \o NewRecords(window, returns')
    /\ stdev_calls' = IF Len(returns') > 1
                      THEN Append(stdev_calls, Len(returns'))
                      ELSE stdev_calls
    /\ window' = window + 1
    /\ UNCHANGED <<prices, max_window, scan_pc, kw_i, report>>
    /\ UNCHANGED not_scan

\* if window > len(prices): break
ScanBreak ==
    /\ scan_pc = "loop"
    /\ window <= max_window
    /\ window > Len(prices)
    /\ scan_pc' = "done"
    /\ UNCHANGED <<prices, max_window, window, returns, results, stdev_calls, kw_i, report>>
    /\ UNCHANGED not_scan

\* The range is exhausted.
ScanEnd ==
    /\ scan_pc = "loop"
    /\ ~(window <= max_window)
    /\ scan_pc' = "done"
    /\ UNCHANGED <<prices, max_window, window, returns, results, stdev_calls, kw_i, report>>
    /\ UNCHANGED not_scan

\* key_windows = [1, 5, 15, 30, 60, 240, 1440, 1440*2, 1440*3, 1440*7]
key_windows == <<1, 5, 15, 30, 60, 240, 1440, 1440 * 2, 1440 * 3, 1440 * 7>>

\* Lines 86-90: one iteration of for kw in key_windows, after the scan: the
\* record at results[kw - 1] is printed when kw <= len(results).
KeyWindow ==
    /\ scan_pc = "done"
    /\ kw_i <= Len(key_windows)
    /\ LET kw == key_windows[kw_i]
       IN  report' = IF kw <= Len(results)
                     THEN Append(report, [kw |-> kw, result |-> results[kw]])
                     ELSE report
    /\ kw_i' = kw_i + 1
    /\ UNCHANGED <<prices, max_window, window, returns, results, scan_pc, stdev_calls>>
    /\ UNCHANGED not_scan

NextScan == ScanWindow \/ ScanBreak \/ ScanEnd \/ KeyWindow

----------------------------------------------------------------------------
(* fetch_okx_eth_options.py: normal_cdf, black_scholes_call,               *)
(* black_scholes_put.                                                      *)

a1 == 254830

a2 == -284497

a3 == 1421414

a4 == -1453152

a5 == 1061405

p == 327591

\* math.sqrt(2.0)
Sqrt2 == FxSqrt(2 * Q)

\* normal_cdf with sign = 1 whatever x is.
normal_cdf_NoSign(v) ==
    Eval1(v, LAMBDA x_in :
        Eval1(FxDiv(Abs(x_in), Sqrt2), LAMBDA x :
            Eval1(FxDiv(Q, Q + FxMul(p, x)), LAMBDA t :
                LET poly == FxMul(FxMul(FxMul(FxMul(FxMul(a5, t) + a4, t) + a3, t)
                                        + a2, t) + a1, t)
                    y == Q - FxMul(poly, FxExp(-FxMul(x, x)))
                IN  (Q + y) \div 2)))

\* normal_cdf(x): the rational approximation of the standard normal CDF.
normal_cdf(v) ==
    Eval1(v, LAMBDA x_in :
        LET sign == IF x_in < 0 THEN -1 ELSE 1
        IN  Eval1(FxDiv(Abs(x_in), Sqrt2), LAMBDA x :
                Eval1(FxDiv(Q, Q + FxMul(p, x)), LAMBDA t :
                    LET poly == FxMul(FxMul(FxMul(FxMul(FxMul(a5, t) + a4, t) + a3, t)
                                            + a2, t) + a1, t)
                        y == Q - FxMul(poly, FxExp(-FxMul(x, x)))
                    IN  (Q + sign * y) \div 2)))

\* math.pi
Pi == 3141593

\* normal_pdf(x) (black_scholes_option_calculator.py, option_formula_no_rate.py):
\* the density of the standard normal distribution.
normal_pdf(v) ==
    Eval1(v, LAMBDA x :
        FxMul(FxDiv(Q, FxSqrt(FxMul(2 * Q, Pi))), FxExp(-FxMul(Q \div 2, FxMul(x, x)))))

\* black_scholes_call(S, K, T, r, sigma), S > 0 and K > 0.
black_scholes_call(S, K, T, r, sigma) ==
    IF T <= 0 THEN Max(S - K, 0)
    ELSE IF sigma = 0 THEN Max(S - K, 0)
    ELSE Eval1(FxSqrt(T), LAMBDA sqrt_T :
             Eval1(FxDiv(FxLn(FxDiv(S, K)) + FxMul(r + FxMul(sigma, sigma) \div 2, T),
                         FxMul(sigma, sqrt_T)),
                   LAMBDA d1 :
                 LET d2 == Clamp(d1 - FxMul(sigma, sqrt_T))
                     discount == FxExp(-FxMul(r, T))
                 IN  FxMul(FxMul(S, normal_cdf(d1)), discount)
                         - FxMul(FxMul(K, normal_cdf(d2)), discount)))

\* black_scholes_put(S, K, T, r, sigma): the call, by put-call parity.
black_scholes_put(S, K, T, r, sigma) ==
    LET call_price == black_scholes_call(S, K, T, r, sigma)
    IN  call_price - S + FxMul(K, FxExp(-FxMul(r, T)))

----------------------------------------------------------------------------
(* calculate_implied_volatility (fetch_okx_eth_options.py).                *)

\* Bound: max_iterations (100 by default) ranges over 0..MaxIter.
MaxIter == 4

\* Volatilities are held in units of 1e-6 / 2^MaxIter, so that every midpoint
\* of the bisection is exact; the pricer gets them rounded to 1e-6.
VolDen == 2 ^ MaxIter

VolQ == Q * VolDen

ToSigma(vol) == RoundDiv(vol, VolDen)

\* vol_low = 0.001
VolLow == VolQ \div 1000

\* vol_high = 5.0
VolHigh == 5 * VolQ

\* The widened bound set to 20.0 for 10.0.
VolHighWide_Twenty == 20 * VolQ

\* vol_high = 10.0, when the market price is above the price at 5.0.
VolHighWide == 10 * VolQ

\* min_T = 1.0 / (365.0 * 24.0)
min_T == RoundDiv(Q, 365 * 24)

\* T left as passed.
FlooredT_NoFloor(T) == T

\* T = max(T, min_T)
FlooredT(T) == Max(T, min_T)

\* intrinsic_value
intrinsic_value(ot, S, K) ==
    IF Upper(ot) = "CALL" THEN Max(S - K, 0) ELSE Max(K - S, 0)

\* ReturnsNone without the comparison with the intrinsic value.
ReturnsNone_NoIntrinsic(mp, S, K, T, ot) ==
    T <= 0 \/ mp <= 0 \/ S <= 0 \/ K <= 0

\* The two early returns of None: the arguments that are not positive, and a
\* market price below the intrinsic value.
ReturnsNone(mp, S, K, T, ot) ==
    \/ T <= 0 \/ mp <= 0 \/ S <= 0 \/ K <= 0
    \/ mp < intrinsic_value(ot, S, K)

\* The pricer the option type selects, at the volatility vol.
Price(ot, S, K, T, r, vol) ==
    IF Upper(ot) = "CALL"
    THEN black_scholes_call(S, K, T, r, ToSigma(vol))
    ELSE black_scholes_put(S, K, T, r, ToSigma(vol))

\* The low end for the midpoint.
Midpoint_Low(lo, hi) == lo

\* (vol_low + vol_high) / 2.0
Midpoint(lo, hi) == (lo + hi) \div 2

\* The arguments: prices in dollars, times in years, all in units of 1e-6.
MarketPrices == {0, 200, 3 * Q, 12 * Q, 99 * Q + Q \div 2, 100 * Q, 150 * Q}

SpotValues == {0, 100 * Q}

StrikeValues == {0, 90 * Q, 100 * Q}

TimeValues == {-Q, 0, 50, min_T, Q}

RateValues == {0, 50000}

Tolerances == {1, Q \div 2}

None == [kind |-> "None", val |-> 0]

Pending == [kind |-> "pending", val |-> 0]

Vol(v) == [kind |-> "vol", val |-> v]

PricerCall(vol) == [T |-> iv_T, sigma |-> vol]

InitIV ==
    /\ market_price \in MarketPrices
    /\ iv_S \in SpotValues
    /\ iv_K \in StrikeValues
    /\ iv_T_arg \in TimeValues
    /\ iv_T = iv_T_arg
    /\ iv_r \in RateValues
    /\ option_type \in {"CALL", "put"}
    /\ max_iterations \in {0, 1, MaxIter}
    /\ tolerance \in Tolerances
    /\ vol_low = 0
    /\ vol_high = 0
    /\ vol_mid = 0
    /\ price_low = 0
    /\ price_high = 0
    /\ iv_i = 0
    /\ iv_pc = "start"
    /\ iv_result = Pending
    /\ vol_high_0 = 0
    /\ pricer_calls = <<>>

\* The round trip: calculate_implied_volatility, with its default
\* max_iterations and tolerance, on the price black_scholes_call gives at
\* r = 0 for a volatility of RoundTripSigmas.
RoundTripStrikes == {90 * Q, 100 * Q, 110 * Q}

\* A quarter of an hour, one hour, a quarter of a year, a year.
RoundTripTimes == {min_T \div 4, min_T, Q \div 4, Q}

RoundTripSigmas == {Q \div 100, Q \div 20, Q \div 5, Q \div 2, 2 * Q}

\* max_iterations: int = 100
DefaultMaxIterations == 100

\* tolerance: float = 1e-6
DefaultTolerance == 1

InitRoundTrip ==
    /\ iv_S = 100 * Q
    /\ iv_K \in RoundTripStrikes
    /\ iv_T_arg \in RoundTripTimes
    /\ iv_T = iv_T_arg
    /\ iv_r = 0
    /\ market_price \in {black_scholes_call(iv_S, iv_K, iv_T_arg, 0, sigma) :
                              sigma \in RoundTripSigmas}
    /\ option_type = "CALL"
    /\ max_iterations = DefaultMaxIterations
    /\ tolerance = DefaultTolerance
    /\ vol_low = 0
    /\ vol_high = 0
    /\ vol_mid = 0
    /\ price_low = 0
    /\ price_high = 0
    /\ iv_i = 0
    /\ iv_pc = "start"
    /\ iv_result = Pending
    /\ vol_high_0 = 0
    /\ pricer_calls = <<>>

\* Lines 113-128: the floor on T and the early returns of None.
Prechecks ==
    /\ iv_pc = "start"
    /\ iv_T' = FlooredT(iv_T)
    /\ IF ReturnsNone(market_price, iv_S, iv_K, iv_T', option_type)
       THEN iv_pc' = "returned" /\ iv_result' = None
       ELSE iv_pc' = "bounds" /\ iv_result' = Pending
    /\ UNCHANGED <<iv_args, vol_low, vol_high, vol_mid, price_low, price_high, iv_i,
                   vol_high_0, pricer_calls>>
    /\ UNCHANGED not_iv

\* Bounds without the return of 0.001: a market price below the price at the
\* low end goes on to the bisection.
Bounds_NoLowReturn ==
    /\ iv_pc = "bounds"
    /\ LET lo == Price(option_type, iv_S, iv_K, iv_T, iv_r, VolLow)
           hi == Price(option_type, iv_S, iv_K, iv_T, iv_r, VolHigh)
       IN  IF market_price > hi
           THEN /\ vol_high' = VolHighWide
                /\ price_low' = lo
                /\ price_high' = Price(option_type, iv_S, iv_K, iv_T, iv_r, VolHighWide)
                /\ pricer_calls' = pricer_calls \o
                       <<PricerCall(VolLow), PricerCall(VolHigh), PricerCall(VolHighWide)>>
           ELSE /\ vol_high' = VolHigh
                /\ price_low' = lo
                /\ price_high' = hi
                /\ pricer_calls' = pricer_calls \o <<PricerCall(VolLow), PricerCall(VolHigh)>>
    /\ iv_pc' = "bisect"
    /\ iv_result' = Pending
    /\ vol_low' = VolLow
    /\ vol_high_0' = vol_high'
    /\ UNCHANGED <<iv_args, iv_T, vol_mid, iv_i>>
    /\ UNCHANGED not_iv

\* Lines 130-153: the prices at the two ends of the search interval, the
\* return of 0.001 below the low end, the widening above the high end.
Bounds ==
    /\ iv_pc = "bounds"
    /\ LET lo == Price(option_type, iv_S, iv_K, iv_T, iv_r, VolLow)
           hi == Price(option_type, iv_S, iv_K, iv_T, iv_r, VolHigh)
       IN  IF market_price < lo
           THEN /\ iv_pc' = "returned"
                /\ iv_result' = Vol(VolLow)
                /\ vol_high' = VolHigh
                /\ price_low' = lo
                /\ price_high' = hi
                /\ pricer_calls' = pricer_calls \o <<PricerCall(VolLow), PricerCall(VolHigh)>>
           ELSE IF market_price > hi
           THEN /\ iv_pc' = "bisect"
                /\ iv_result' = Pending
                /\ vol_high' = VolHighWide
                /\ price_low' = lo
                /\ price_high' = Price(option_type, iv_S, iv_K, iv_T, iv_r, VolHighWide)
                /\ pricer_calls' = pricer_calls \o
                       <<PricerCall(VolLow), PricerCall(VolHigh), PricerCall(VolHighWide)>>
           ELSE /\ iv_pc' = "bisect"
                /\ iv_result' = Pending
                /\ vol_high' = VolHigh
                /\ price_low' = lo
                /\ price_high' = hi
                /\ pricer_calls' = pricer_calls \o <<PricerCall(VolLow), PricerCall(VolHigh)>>
    /\ vol_low' = VolLow
    /\ vol_high_0' = vol_high'
    /\ UNCHANGED <<iv_args, iv_T, vol_mid, iv_i>>
    /\ UNCHANGED not_iv

\* Iterate without the return at line 167: an iteration within the tolerance
\* goes on to narrow the interval.
Iterate_NoEarlyReturn ==
    /\ iv_pc = "bisect"
    /\ iv_i < max_iterations
    /\ vol_mid' = Midpoint(vol_low, vol_high)
    /\ pricer_calls' = Append(pricer_calls, PricerCall(vol_mid'))
    /\ LET price_mid == Price(option_type, iv_S, iv_K, iv_T, iv_r, vol_mid')
       IN  /\ iv_pc' = "bisect"
           /\ iv_result' = Pending
           /\ IF price_mid < market_price
              THEN vol_low' = vol_mid' /\ vol_high' = vol_high
              ELSE vol_high' = vol_mid' /\ vol_low' = vol_low
    /\ iv_i' = iv_i + 1
    /\ UNCHANGED <<iv_args, iv_T, price_low, price_high, vol_high_0>>
    /\ UNCHANGED not_iv

\* Iterate with the two ends exchanged: a midpoint priced below the market
\* becomes the high end.
Iterate_WrongEnd ==
    /\ iv_pc = "bisect"
    /\ iv_i < max_iterations
    /\ vol_mid' = Midpoint(vol_low, vol_high)
    /\ pricer_calls' = Append(pricer_calls, PricerCall(vol_mid'))
    /\ LET price_mid == Price(option_type, iv_S, iv_K, iv_T, iv_r, vol_mid')
           error == Abs(price_mid - market_price)
       IN  IF error < tolerance
           THEN /\ iv_pc' = "returned"
                /\ iv_result' = Vol(vol_mid')
                /\ UNCHANGED <<vol_low, vol_high>>
           ELSE /\ iv_pc' = "bisect"
                /\ iv_result' = Pending
                /\ IF price_mid < market_price
                   THEN vol_high' = vol_mid' /\ vol_low' = vol_low
                   ELSE vol_low' = vol_mid' /\ vol_high' = vol_high
    /\ iv_i' = iv_i + 1
    /\ UNCHANGED <<iv_args, iv_T, price_low, price_high, vol_high_0>>
    /\ UNCHANGED not_iv

\* Lines 156-172: one iteration of the bisection.
Iterate ==
    /\ iv_pc = "bisect"
    /\ iv_i < max_iterations
    /\ vol_mid' = Midpoint(vol_low, vol_high)
    /\ pricer_calls' = Append(pricer_calls, PricerCall(vol_mid'))
    /\ LET price_mid == Price(option_type, iv_S, iv_K, iv_T, iv_r, vol_mid')
           error == Abs(price_mid - market_price)
       IN  IF error < tolerance
           THEN /\ iv_pc' = "returned"
                /\ iv_result' = Vol(vol_mid')
                /\ UNCHANGED <<vol_low, vol_high>>
           ELSE /\ iv_pc' = "bisect"
                /\ iv_result' = Pending
                /\ IF price_mid < market_price
                   THEN vol_low' = vol_mid' /\ vol_high' = vol_high
                   ELSE vol_high' = vol_mid' /\ vol_low' = vol_low
    /\ iv_i' = iv_i + 1
    /\ UNCHANGED <<iv_args, iv_T, price_low, price_high, vol_high_0>>
    /\ UNCHANGED not_iv

\* ReturnMidpoint with the high end in place of the midpoint.
ReturnMidpoint_High ==
    /\ iv_pc = "bisect"
    /\ ~(iv_i < max_iterations)
    /\ iv_pc' = "returned"
    /\ iv_result' = Vol(vol_high)
    /\ UNCHANGED <<iv_args, iv_T, vol_low, vol_high, vol_mid, price_low, price_high, iv_i,
                   vol_high_0, pricer_calls>>
    /\ UNCHANGED not_iv

\* Line 175: the iterations are used up; return the midpoint.
ReturnMidpoint ==
    /\ iv_pc = "bisect"
    /\ ~(iv_i < max_iterations)
    /\ iv_pc' = "returned"
    /\ iv_result' = Vol(Midpoint(vol_low, vol_high))
    /\ UNCHANGED <<iv_args, iv_T, vol_low, vol_high, vol_mid, price_low, price_high, iv_i,
                   vol_high_0, pricer_calls>>
    /\ UNCHANGED not_iv

NextIV == Prechecks \/ Bounds \/ Iterate \/ ReturnMidpoint

----------------------------------------------------------------------------
(* The pricing functions of black_scholes_option_calculator.py              *)
(* ("calculator"), fetch_okx_eth_options.py ("okx") and                     *)
(* option_formula_no_rate.py ("no_rate"), and one call of one of them.      *)
(* normal_cdf and normal_pdf are the same function in every file that has   *)
(* them.                                                                    *)

\* black_scholes_option_calculator.py, black_scholes_call(S, K, T, r, sigma),
\* where it raises nothing.
calculator_black_scholes_call(S, K, T, r, sigma) ==
    IF T <= 0 THEN Max(S - K, 0)
    ELSE Eval1(FxDiv(FxLn(FxDiv(S, K)) + FxMul(r + FxMul(sigma, sigma) \div 2, T),
                     FxMul(sigma, FxSqrt(T))),
               LAMBDA d1 :
             LET d2 == Clamp(d1 - FxMul(sigma, FxSqrt(T)))
             IN  FxMul(S, normal_cdf(d1))
                     - FxMul(FxMul(K, FxExp(-FxMul(r, T))), normal_cdf(d2)))

\* The put with the strike not discounted.
calculator_black_scholes_put_NoDiscount(S, K, T, r, sigma) ==
    LET call_price == calculator_black_scholes_call(S, K, T, r, sigma)
    IN  call_price - S + K

\* black_scholes_option_calculator.py, black_scholes_put(S, K, T, r, sigma).
calculator_black_scholes_put(S, K, T, r, sigma) ==
    LET call_price == calculator_black_scholes_call(S, K, T, r, sigma)
    IN  call_price - S + FxMul(K, FxExp(-FxMul(r, T)))

\* black_scholes_call_no_rate(S, K, T, sigma), where it raises nothing.
black_scholes_call_no_rate(S, K, T, sigma) ==
    IF T <= 0 THEN Max(S - K, 0)
    ELSE IF sigma = 0 THEN Max(S - K, 0)
    ELSE Eval1(FxSqrt(T), LAMBDA sqrt_T :
             Eval1(FxDiv(FxLn(FxDiv(S, K)) + FxMul(FxMul(sigma, sigma) \div 2, T),
                         FxMul(sigma, sqrt_T)),
                   LAMBDA d1 :
                 LET d2 == Clamp(d1 - FxMul(sigma, sqrt_T))
                 IN  FxMul(S, normal_cdf(d1)) - FxMul(K, normal_cdf(d2))))

\* black_scholes_put_no_rate(S, K, T, sigma)
black_scholes_put_no_rate(S, K, T, sigma) ==
    LET call_price == black_scholes_call_no_rate(S, K, T, sigma)
    IN  call_price - S + K

\* expected_call_intrinsic_normal returning expected_value as it is.
expected_call_intrinsic_normal_NoClip(S0, K, T, sigma) ==
    IF T <= 0 THEN Max(S0 - K, 0)
    ELSE LET mu == S0
             sigma_price == FxMul(FxMul(S0, sigma), FxSqrt(T))
         IN  IF sigma_price = 0 THEN Max(mu - K, 0)
             ELSE LET d == FxDiv(mu - K, sigma_price)
                  IN  FxMul(mu - K, normal_cdf(d)) + FxMul(sigma_price, normal_pdf(d))

\* expected_call_intrinsic_normal(S0, K, T, sigma), of the calculator and of
\* option_formula_no_rate.py.
expected_call_intrinsic_normal(S0, K, T, sigma) ==
    IF T <= 0 THEN Max(S0 - K, 0)
    ELSE LET mu == S0
             sigma_price == FxMul(FxMul(S0, sigma), FxSqrt(T))
         IN  IF sigma_price = 0 THEN Max(mu - K, 0)
             ELSE LET d == FxDiv(mu - K, sigma_price)
                      expected_value == FxMul(mu - K, normal_cdf(d))
                                            + FxMul(sigma_price, normal_pdf(d))
                  IN  Max(expected_value, 0)

\* expected_put_intrinsic_normal(S0, K, T, sigma)
expected_put_intrinsic_normal(S0, K, T, sigma) ==
    IF T <= 0 THEN Max(K - S0, 0)
    ELSE LET mu == S0
             sigma_price == FxMul(FxMul(S0, sigma), FxSqrt(T))
         IN  IF sigma_price = 0 THEN Max(K - mu, 0)
             ELSE LET d == FxDiv(K - mu, sigma_price)
                      expected_value == FxMul(K - mu, normal_cdf(d))
                                            + FxMul(sigma_price, normal_pdf(d))
                  IN  Max(expected_value, 0)

\* What a call hands back: a value, or the exception it raises.
Value(v) == [kind |-> "value", val |-> v]

Raise(exception) == [kind |-> exception, val |-> 0]

NoResult == [kind |-> "pending", val |-> 0]

\* What math.log(S / K) raises: S / K raises on K = 0, math.log on an
\* argument that is not positive.
log_ratio_raises(S, K) ==
    IF K = 0 THEN "ZeroDivisionError"
    ELSE IF S = 0 \/ (S < 0) /= (K < 0) THEN "ValueError"
    ELSE "none"

\* What the call pricer of the file impl raises. The calculator has no
\* `if sigma == 0` before d1, and divides by sigma * math.sqrt(T).
call_raises(impl, S, K, T, sigma) ==
    IF T <= 0 THEN "none"
    ELSE IF impl /= "calculator" /\ sigma = 0 THEN "none"
    ELSE IF log_ratio_raises(S, K) /= "none" THEN log_ratio_raises(S, K)
    ELSE IF sigma = 0 THEN "ZeroDivisionError"
    ELSE "none"

\* The call pricer of the file impl, called.
call_result(impl, S, K, T, r, sigma) ==
    IF call_raises(impl, S, K, T, sigma) /= "none"
    THEN Raise(call_raises(impl, S, K, T, sigma))
    ELSE IF impl = "calculator" THEN Value(calculator_black_scholes_call(S, K, T, r, sigma))
    ELSE IF impl = "okx" THEN Value(black_scholes_call(S, K, T, r, sigma))
    ELSE Value(black_scholes_call_no_rate(S, K, T, sigma))

\* The put pricer of the file impl, called: what its call of the call pricer
\* raises passes through it.
put_result(impl, S, K, T, r, sigma) ==
    IF call_raises(impl, S, K, T, sigma) /= "none"
    THEN Raise(call_raises(impl, S, K, T, sigma))
    ELSE IF impl = "calculator" THEN Value(calculator_black_scholes_put(S, K, T, r, sigma))
    ELSE IF impl = "okx" THEN Value(black_scholes_put(S, K, T, r, sigma))
    ELSE Value(black_scholes_put_no_rate(S, K, T, sigma))

\* numpy's global generator, as far as the program can tell its states apart:
\* the seed last given to np.random.seed and the number of deviates drawn
\* since. StandardNormal[i] is the i-th standard normal deviate after
\* np.random.seed(42).
StandardNormal == <<496714, -138264, 647689, 1523030>>

SeedOfHalfT == 42

RandomStates ==
    {[seed |-> 0, drawn |-> 0], [seed |-> SeedOfHalfT, drawn |-> 0],
     [seed |-> SeedOfHalfT, drawn |-> 2]}

SampleCounts == {1, 2, 3}

\* np.random.seed(42) followed by np.random.normal(mean, std, num_samples)
price_samples(mean_at_t, std_at_t, num_samples) ==
    [i \in 1..num_samples |-> mean_at_t + FxMul(std_at_t, StandardNormal[i])]

\* The body of the loop over price_samples: the call price appended, or the
\* exception raised.
sample_call_price(S_t, S0, K, remaining_T, sigma_abs) ==
    IF S_t <= 0 THEN Value(0)
    ELSE IF S0 = 0 THEN Raise("ZeroDivisionError")
    ELSE call_result("no_rate", S_t, K, remaining_T, 0, FxDiv(sigma_abs, S0))

\* expected_call_price_at_half_T(S0, K, T, sigma_abs, num_samples): seeded
\* tells whether np.random.seed(42) was reached, result is expected_call or
\* the exception raised, current is current_call, prices is
\* call_prices_array.
expected_call_price_at_half_T(S0, K, T, sigma_abs, num_samples) ==
    LET t == T \div 2
        remaining_T == T \div 2
        mean_at_t == S0
    IN  IF t < 0
        THEN [seeded |-> FALSE, result |-> Raise("ValueError"), current |-> NoResult,
              prices |-> <<>>]
        ELSE Eval1(price_samples(mean_at_t, FxSqrt(FxMul(FxMul(sigma_abs, sigma_abs), t)),
                                 num_samples),
                   LAMBDA samples :
             Eval1([i \in 1..num_samples |->
                       sample_call_price(samples[i], S0, K, remaining_T, sigma_abs)],
                   LAMBDA calls :
             LET raised == {i \in 1..num_samples : calls[i].kind /= "value"}
                 call_prices_array == [i \in 1..num_samples |-> calls[i].val]
             IN  IF raised /= {}
                 THEN [seeded |-> TRUE,
                       result |-> calls[CHOOSE i \in raised : \A j \in raised : i <= j],
                       current |-> NoResult, prices |-> <<>>]
                 ELSE Eval1(IF S0 = 0 THEN Raise("ZeroDivisionError")
                            ELSE call_result("no_rate", S0, K, T, 0, FxDiv(sigma_abs, S0)),
                            LAMBDA current_call :
                      IF current_call.kind /= "value"
                      THEN [seeded |-> TRUE, result |-> current_call, current |-> NoResult,
                            prices |-> <<>>]
                      ELSE [seeded |-> TRUE,
                            result |-> Value(RoundDiv(Sum(call_prices_array), num_samples)),
                            current |-> current_call, prices |-> call_prices_array])))

\* The arguments: prices in dollars, times in years, all in units of 1e-6.
PricerSpots == {-100 * Q, 0, 90 * Q, 100 * Q, 110 * Q}

PricerStrikes == {-100 * Q, 0, 100 * Q}

PricerTimes == {-Q, 0, Q \div 4, Q}

PricerRates == {0, Q \div 20}

PricerSigmas == {-(Q \div 5), 0, Q \div 5, Q}

CdfArguments == {-3 * Q, -Q, -(Q \div 3), -1, 0, 1, Q \div 3, Q, 3 * Q}

\* The files that define each function; option_formula_no_rate.py takes no r.
InitPr ==
    /\ pr_S \in PricerSpots
    /\ pr_K \in PricerStrikes
    /\ pr_T \in PricerTimes
    /\ pr_sigma \in PricerSigmas
    /\ pr_x = 0
    /\ \/ /\ pr_fn \in {"black_scholes_call", "black_scholes_put"}
          /\ pr_impl \in {"calculator", "okx"}
          /\ pr_r \in PricerRates
       \/ /\ pr_fn \in {"black_scholes_call", "black_scholes_put"}
          /\ pr_impl = "no_rate"
          /\ pr_r = 0
       \/ /\ pr_fn \in {"expected_call_intrinsic_normal", "expected_put_intrinsic_normal"}
          /\ pr_impl \in {"calculator", "no_rate"}
          /\ pr_r = 0
    /\ pr_num_samples = 0
    /\ pr_pc = "start"
    /\ pr_call = NoResult
    /\ pr_result = NoResult
    /\ call_prices = <<>>
    /\ np_random_state \in RandomStates

\* normal_cdf is called with x alone.
InitCdf ==
    /\ pr_fn = "normal_cdf"
    /\ pr_impl \in {"calculator", "okx", "no_rate"}
    /\ pr_x \in CdfArguments
    /\ pr_S = 0
    /\ pr_K = 0
    /\ pr_T = 0
    /\ pr_r = 0
    /\ pr_sigma = 0
    /\ pr_num_samples = 0
    /\ pr_pc = "start"
    /\ pr_call = NoResult
    /\ pr_result = NoResult
    /\ call_prices = <<>>
    /\ np_random_state \in RandomStates

\* expected_call_price_at_half_T is called with S0, K, T, the absolute
\* standard deviation sigma_abs and num_samples.
HalfTSpots == {0, 90 * Q, 100 * Q}

HalfTSigmas == {0, 3 * Q, 10 * Q}

InitHalfT ==
    /\ pr_fn = "expected_call_price_at_half_T"
    /\ pr_impl = "no_rate"
    /\ pr_S \in HalfTSpots
    /\ pr_K \in PricerStrikes
    /\ pr_T \in PricerTimes
    /\ pr_r = 0
    /\ pr_sigma \in HalfTSigmas
    /\ pr_x = 0
    /\ pr_num_samples \in SampleCounts
    /\ pr_pc = "start"
    /\ pr_call = NoResult
    /\ pr_result = NoResult
    /\ call_prices = <<>>
    /\ np_random_state \in RandomStates

IdlePr ==
    /\ pr_impl = "okx"
    /\ pr_fn = "normal_cdf"
    /\ pr_S = 0
    /\ pr_K = 0
    /\ pr_T = 0
    /\ pr_r = 0
    /\ pr_sigma = 0
    /\ pr_x = 0
    /\ pr_num_samples = 0
    /\ pr_pc = "done"
    /\ pr_call = [kind |-> "pending", val |-> 0]
    /\ pr_result = [kind |-> "pending", val |-> 0]
    /\ call_prices = <<>>
    /\ np_random_state = [seed |-> 0, drawn |-> 0]

\* black_scholes_call / black_scholes_call_no_rate, called.
BlackScholesCall ==
    /\ pr_pc = "start"
    /\ pr_fn = "black_scholes_call"
    /\ pr_result' = call_result(pr_impl, pr_S, pr_K, pr_T, pr_r, pr_sigma)
    /\ pr_pc' = "done"
    /\ UNCHANGED <<pr_args, pr_call, call_prices, np_random_state>>
    /\ UNCHANGED not_pr

\* black_scholes_put / black_scholes_put_no_rate, called: it calls the call
\* pricer of its file, then applies the parity.
BlackScholesPut ==
    /\ pr_pc = "start"
    /\ pr_fn = "black_scholes_put"
    /\ pr_call' = call_result(pr_impl, pr_S, pr_K, pr_T, pr_r, pr_sigma)
    /\ pr_result' = put_result(pr_impl, pr_S, pr_K, pr_T, pr_r, pr_sigma)
    /\ pr_pc' = "done"
    /\ UNCHANGED <<pr_args, call_prices, np_random_state>>
    /\ UNCHANGED not_pr

\* expected_call_intrinsic_normal, called.
ExpectedCallIntrinsic ==
    /\ pr_pc = "start"
    /\ pr_fn = "expected_call_intrinsic_normal"
    /\ pr_result' = Value(expected_call_intrinsic_normal(pr_S, pr_K, pr_T, pr_sigma))
    /\ pr_pc' = "done"
    /\ UNCHANGED <<pr_args, pr_call, call_prices, np_random_state>>
    /\ UNCHANGED not_pr

\* expected_put_intrinsic_normal, called.
ExpectedPutIntrinsic ==
    /\ pr_pc = "start"
    /\ pr_fn = "expected_put_intrinsic_normal"
    /\ pr_result' = Value(expected_put_intrinsic_normal(pr_S, pr_K, pr_T, pr_sigma))
    /\ pr_pc' = "done"
    /\ UNCHANGED <<pr_args, pr_call, call_prices, np_random_state>>
    /\ UNCHANGED not_pr

\* normal_cdf, called.
NormalCdf ==
    /\ pr_pc = "start"
    /\ pr_fn = "normal_cdf"
    /\ pr_result' = Value(normal_cdf(pr_x))
    /\ pr_pc' = "done"
    /\ UNCHANGED <<pr_args, pr_call, call_prices, np_random_state>>
    /\ UNCHANGED not_pr

\* expected_call_price_at_half_T, called: past math.sqrt(t) it seeds the
\* global generator and draws num_samples deviates from it.
ExpectedCallPriceAtHalfT ==
    /\ pr_pc = "start"
    /\ pr_fn = "expected_call_price_at_half_T"
    /\ \E out \in {expected_call_price_at_half_T(pr_S, pr_K, pr_T, pr_sigma, pr_num_samples)} :
           /\ pr_result' = out.result
           /\ pr_call' = out.current
           /\ call_prices' = out.prices
           /\ np_random_state' =
                  IF out.seeded THEN [seed |-> SeedOfHalfT, drawn |-> pr_num_samples]
                  ELSE np_random_state
    /\ pr_pc' = "done"
    /\ UNCHANGED pr_args
    /\ UNCHANGED not_pr

NextPr ==
    BlackScholesCall \/ BlackScholesPut \/ ExpectedCallIntrinsic \/ ExpectedPutIntrinsic
        \/ NormalCdf \/ ExpectedCallPriceAtHalfT

----------------------------------------------------------------------------
(* The row loops of calculate_minute_volatility.py and of                  *)
(* calculate_multi_timeframe_volatility.py over csv.DictReader.            *)

\* Bound: the file holds at most MaxRows rows.
MaxRows == 2

Columns == {"Open Time (UTC)", "Open", "Close"}

\* A cell of a row: the text of the field, or None where the row is shorter
\* than the header (csv.DictReader fills it with restval = None).
Text(t) == [none |-> FALSE, text |-> t]

NoneCell == [none |-> TRUE, text |-> ""]

\* The texts float() parses, and what it makes of them.
Numerals == {"-1", "0", "100", "101"}

float(t) == CASE t = "-1" -> -1 [] t = "0" -> 0 [] t = "100" -> 100 [] t = "101" -> 101

CellsOf(column) ==
    IF column = "Open" THEN {NoneCell, Text("abc"), Text("0"), Text("100")}
    ELSE IF column = "Close" THEN {NoneCell, Text(""), Text("101")}
    ELSE {NoneCell, Text("2024-01-01 00:00:00")}

\* The headers: complete, or one column short.
Headers == {Columns} \cup {Columns \ {c} : c \in Columns}

\* The rows of a file under a header: a column the header does not name has
\* no cell to read (row[column] raises KeyError).
RowsUnder(header) ==
    {row \in [Columns -> UNION {CellsOf(c) : c \in Columns}] :
        \A c \in Columns : IF c \in header THEN row[c] \in CellsOf(c)
                                           ELSE row[c] = NoneCell}

InitLd ==
    /\ loader \in {"minute", "multi"}
    /\ fieldnames \in Headers
    /\ csv_rows \in UNION {[1..n -> RowsUnder(fieldnames)] : n \in 0..MaxRows}
    /\ row_i = 0
    /\ price_changes = <<>>
    /\ data_rows = <<>>
    /\ prices = <<>>
    /\ timestamps = <<>>
    /\ ld_pc = "loop"
    /\ ld_raised = "none"

IdleLd ==
    /\ loader = "minute"
    /\ fieldnames = {}
    /\ csv_rows = <<>>
    /\ row_i = 0
    /\ price_changes = <<>>
    /\ data_rows = <<>>
    /\ timestamps = <<>>
    /\ ld_pc = "done"
    /\ ld_raised = "none"

\* What float(row[column]) raises: KeyError where the header does not name
\* the column, TypeError on None, ValueError on a text that is no number.
float_raises(row, column) ==
    IF column \notin fieldnames THEN "KeyError"
    ELSE IF row[column].none THEN "TypeError"
    ELSE IF row[column].text \notin Numerals THEN "ValueError"
    ELSE "none"

\* except (ValueError, KeyError): continue
Caught(exception) == exception \in {"ValueError", "KeyError"}

\* The body of the try of calculate_minute_volatility.py on one row: the
\* exception that ends it ("none" if it runs through) and the two lists as
\* it leaves them.
minute_row(row) ==
    LET open_raises == float_raises(row, "Open")
        close_raises == float_raises(row, "Close")
        open_price == float(row["Open"].text)
        close_price == float(row["Close"].text)
        price_change_pct == PctReturn(close_price, open_price)
        appended == Append(price_changes, price_change_pct)
    IN  IF open_raises /= "none"
        THEN [raises |-> open_raises, price_changes |-> price_changes,
              data_rows |-> data_rows]
        ELSE IF close_raises /= "none"
        THEN [raises |-> close_raises, price_changes |-> price_changes,
              data_rows |-> data_rows]
        ELSE IF open_price = 0
        THEN [raises |-> "ZeroDivisionError", price_changes |-> price_changes,
              data_rows |-> data_rows]
        ELSE IF "Open Time (UTC)" \notin fieldnames
        THEN [raises |-> "KeyError", price_changes |-> appended, data_rows |-> data_rows]
        ELSE [raises |-> "none", price_changes |-> appended,
              data_rows |-> Append(data_rows,
                                   [Open_Time |-> row["Open Time (UTC)"],
                                    Open |-> open_price,
                                    Close |-> close_price,
                                    Price_Change_Pct |-> price_change_pct])]

\* The body of the try of calculate_multi_timeframe_volatility.py on one row.
multi_row(row) ==
    LET close_raises == float_raises(row, "Close")
        close_price == float(row["Close"].text)
        appended == Append(prices, close_price)
    IN  IF close_raises /= "none"
        THEN [raises |-> close_raises, prices |-> prices, timestamps |-> timestamps]
        ELSE IF "Open Time (UTC)" \notin fieldnames
        THEN [raises |-> "KeyError", prices |-> appended, timestamps |-> timestamps]
        ELSE [raises |-> "none", prices |-> appended,
              timestamps |-> Append(timestamps, row["Open Time (UTC)"])]

\* What an iteration of `for row in reader` leaves behind: the loop goes on
\* after the body ran through or raised what the except catches, and the
\* script ends on any other exception.
AfterRow(raises) ==
    /\ row_i' = row_i + 1
    /\ ld_pc' = IF raises = "none" \/ Caught(raises) THEN "loop" ELSE "raised"
    /\ ld_raised' = IF raises = "none" \/ Caught(raises) THEN "none" ELSE raises

\* calculate_minute_volatility.py: one iteration of for row in reader.
ReadRowMinute ==
    /\ ld_pc = "loop"
    /\ loader = "minute"
    /\ row_i < Len(csv_rows)
    /\ LET out == minute_row(csv_rows[row_i + 1])
       IN  /\ price_changes' = out.price_changes
           /\ data_rows' = out.data_rows
           /\ AfterRow(out.raises)
    /\ UNCHANGED <<loader, fieldnames, csv_rows, prices, timestamps>>
    /\ UNCHANGED not_ld

\* calculate_multi_timeframe_volatility.py: one iteration of for row in reader.
ReadRowMulti ==
    /\ ld_pc = "loop"
    /\ loader = "multi"
    /\ row_i < Len(csv_rows)
    /\ LET out == multi_row(csv_rows[row_i + 1])
       IN  /\ prices' = out.prices
           /\ timestamps' = out.timestamps
           /\ AfterRow(out.raises)
    /\ UNCHANGED <<loader, fieldnames, csv_rows, price_changes, data_rows>>
    /\ UNCHANGED not_ld

\* The reader is exhausted.
EndOfFile ==
    /\ ld_pc = "loop"
    /\ row_i = Len(csv_rows)
    /\ ld_pc' = "done"
    /\ UNCHANGED <<loader, fieldnames, csv_rows, row_i, price_changes, data_rows, prices,
                   timestamps, ld_raised>>
    /\ UNCHANGED not_ld

NextLd == ReadRowMinute \/ ReadRowMulti \/ EndOfFile

----------------------------------------------------------------------------
(* fetch_okx_eth_options.py: one call of filter_option, and                *)
(* get_eth_spot_price.                                                     *)

\* The arguments of filter_option: spot prices as get_eth_spot_price returns
\* them (positive), strikes on both sides of each, within and beyond 1% of
\* it, and option types in every spelling.
FilterSpots == {100, 3090}

FilterStrikes == {0, 98, 99, 100, 101, 102, 3059, 3060, 3090, 3120, 3121, 5000}

FilterTypes == {"C", "c", "CALL", "call", "Call", "P", "p", "PUT", "put", "Put", "X",
                "UNKNOWN", ""}

InitFo ==
    /\ fo_spot_price \in FilterSpots
    /\ fo_strike \in FilterStrikes
    /\ fo_option_type \in FilterTypes
    /\ fo_result = FALSE
    /\ fo_pc = "start"

IdleFo ==
    /\ fo_spot_price = 0
    /\ fo_strike = 0
    /\ fo_option_type = ""
    /\ fo_result = FALSE
    /\ fo_pc = "done"

\* filter_option, called.
FilterOption ==
    /\ fo_pc = "start"
    /\ fo_result' = filter_option(fo_spot_price, fo_strike, fo_option_type)
    /\ fo_pc' = "done"
    /\ UNCHANGED <<fo_spot_price, fo_strike, fo_option_type>>
    /\ UNCHANGED not_fo

NextFo == FilterOption

\* for symbol in ["ETH-USDT", "ETH-USD"]
symbols == <<"ETH-USDT", "ETH-USD">>

\* What a ticker request comes to: requests.get or response.json() raises
\* ("exception"), or data is a dict with a code and, under "data", nothing
\* ("missing"), an empty list ("empty"), or a list whose first entry has no
\* "last" ("nolast") or has the text last under it.
SpotAnswers ==
    [kind : {"exception"}, code : {""}, data : {"missing"}, last : {""}]
        \cup [kind : {"json"}, code : {"0", "1"}, data : {"missing", "empty", "nolast"},
              last : {""}]
        \cup [kind : {"json"}, code : {"0", "1"}, data : {"list"},
              last : {"abc", "-1", "0", "100", "101"}]

InitSp ==
    /\ sp_i = 0
    /\ sp_requests = <<>>
    /\ sp_answers = <<>>
    /\ sp_result = Pending
    /\ sp_pc = "loop"

IdleSp ==
    /\ sp_i = 0
    /\ sp_requests = <<>>
    /\ sp_answers = <<>>
    /\ sp_result = [kind |-> "pending", val |-> 0]
    /\ sp_pc = "returned"

\* Something raises inside the try, which holds the whole loop: the request,
\* data["data"][0]["last"] without a "last", or float() of a text that is no
\* number.
SpotRaises(answer) ==
    \/ answer.kind = "exception"
    \/ /\ answer.code = "0"
       /\ \/ answer.data = "nolast"
          \/ answer.data = "list" /\ answer.last \notin Numerals

\* if data.get("code") == "0" and data.get("data"), and price > 0
SpotFound(answer) ==
    /\ answer.kind = "json"
    /\ answer.code = "0"
    /\ answer.data = "list"
    /\ answer.last \in Numerals
    /\ float(answer.last) > 0

\* One iteration of the loop over the two symbols: the request, and what the
\* answer leads to: return None from the except, return price, or the next
\* symbol.
SpotRequest ==
    /\ sp_pc = "loop"
    /\ sp_i < Len(symbols)
    /\ \E answer \in SpotAnswers :
        /\ sp_requests' = Append(sp_requests, symbols[sp_i + 1])
        /\ sp_answers' = Append(sp_answers, answer)
        /\ IF SpotRaises(answer)
           THEN sp_result' = None /\ sp_pc' = "returned"
           ELSE IF SpotFound(answer)
           THEN sp_result' = [kind |-> "price", val |-> float(answer.last)]
                    /\ sp_pc' = "returned"
           ELSE UNCHANGED <<sp_result, sp_pc>>
    /\ sp_i' = sp_i + 1
    /\ UNCHANGED not_sp

\* The loop is over: return None.
SpotNotFound ==
    /\ sp_pc = "loop"
    /\ ~(sp_i < Len(symbols))
    /\ sp_result' = None
    /\ sp_pc' = "returned"
    /\ UNCHANGED <<sp_i, sp_requests, sp_answers>>
    /\ UNCHANGED not_sp

NextSp == SpotRequest \/ SpotNotFound

----------------------------------------------------------------------------
(* The specifications, one per script. *)

IdleScan ==
    /\ prices = <<>>
    /\ max_window = 0
    /\ window = 0
    /\ returns = <<>>
    /\ results = <<>>
    /\ scan_pc = "done"
    /\ stdev_calls = <<>>
    /\ kw_i = 0
    /\ report = <<>>

IdleIV ==
    /\ market_price = 0
    /\ iv_S = 0
    /\ iv_K = 0
    /\ iv_T = 0
    /\ iv_T_arg = 0
    /\ iv_r = 0
    /\ option_type = "CALL"
    /\ max_iterations = 0
    /\ tolerance = 0
    /\ vol_low = 0
    /\ vol_high = 0
    /\ vol_mid = 0
    /\ price_low = 0
    /\ price_high = 0
    /\ iv_i = 0
    /\ iv_pc = "returned"
    /\ iv_result = [kind |-> "None", val |-> 0]
    /\ vol_high_0 = 0
    /\ pricer_calls = <<>>

InitKlines ==
    InitDl /\ IdleK /\ IdleOpt /\ IdleScan /\ IdleIV /\ IdlePr /\ IdleLd
        /\ IdleFo /\ IdleSp /\ events = <<>>

SpecKlines == InitKlines /\ [][NextDl]_vars

InitDates ==
    IdleDl /\ InitK /\ IdleOpt /\ IdleScan /\ IdleIV /\ IdlePr /\ IdleLd
        /\ IdleFo /\ IdleSp /\ events = <<>>

SpecDates == InitDates /\ [][NextK]_vars

InitOptions ==
    IdleDl /\ IdleK /\ InitOpt /\ IdleScan /\ IdleIV /\ IdlePr /\ IdleLd
        /\ IdleFo /\ IdleSp /\ events = <<>>

SpecOptions == InitOptions /\ [][NextOpt]_vars

InitScanner ==
    IdleDl /\ IdleK /\ IdleOpt /\ InitScan /\ IdleIV /\ IdlePr /\ IdleLd
        /\ IdleFo /\ IdleSp /\ events = <<>>

SpecScan == InitScanner /\ [][NextScan]_vars

InitSolver ==
    IdleDl /\ IdleK /\ IdleOpt /\ IdleScan /\ InitIV /\ IdlePr /\ IdleLd
        /\ IdleFo /\ IdleSp /\ events = <<>>

SpecIV == InitSolver /\ [][NextIV]_vars

InitRoundTripSolver ==
    IdleDl /\ IdleK /\ IdleOpt /\ IdleScan /\ InitRoundTrip /\ IdlePr /\ IdleLd
        /\ IdleFo /\ IdleSp /\ events = <<>>

SpecRoundTrip == InitRoundTripSolver /\ [][NextIV]_vars

InitPricer ==
    IdleDl /\ IdleK /\ IdleOpt /\ IdleScan /\ IdleIV /\ (InitPr \/ InitCdf \/ InitHalfT)
        /\ IdleLd /\ IdleFo /\ IdleSp /\ events = <<>>

SpecPricer == InitPricer /\ [][NextPr]_vars

InitLoader ==
    IdleDl /\ IdleK /\ IdleOpt /\ IdleIV /\ IdlePr /\ InitLd /\ IdleFo /\ IdleSp /\ events = <<>>
        /\ max_window = 0 /\ window = 0 /\ returns = <<>> /\ results = <<>>
        /\ scan_pc = "done" /\ stdev_calls = <<>> /\ kw_i = 0 /\ report = <<>>

SpecLoader == InitLoader /\ [][NextLd]_vars

InitFilter ==
    IdleDl /\ IdleK /\ IdleOpt /\ IdleScan /\ IdleIV /\ IdlePr /\ IdleLd
        /\ InitFo /\ IdleSp /\ events = <<>>

SpecFilter == InitFilter /\ [][NextFo]_vars

InitSpot ==
    IdleDl /\ IdleK /\ IdleOpt /\ IdleScan /\ IdleIV /\ IdlePr /\ IdleLd
        /\ IdleFo /\ InitSp /\ events = <<>>

SpecSpot == InitSpot /\ [][NextSp]_vars

\* The download against a server that answers from startTime on; the loop
\* runs on as long as it can.
SpecKlinesLive == InitKlines /\ [][NextDlFromStart]_vars /\ WF_vars(NextDlFromStart)

\* The function runs to its return: a step that can be taken is taken.
SpecIVLive == InitSolver /\ [][NextIV]_vars /\ WF_vars(NextIV)

----------------------------------------------------------------------------
(* The claims. *)

\* C1: when a request raises in fetch_daily_klines or fetch_minute_klines, the
\* function has returned, no request follows the failed one (every request but
\* the failed one has its page), and all_data is exactly the candles of the
\* pages received before it, in the order received.
C1_FailureReturnsPartial ==
    dl_failed =>
        /\ dl_pc = "returned"
        /\ Len(requests) = Len(pages) + 1
        /\ all_data = Flatten(pages)

\* A run that has downloaded a page, and then a request raised.
C1_Witness == dl_failed /\ Len(pages) >= 1 /\ Len(all_data) >= 1

\* Every non-empty page so far is in strictly ascending open-time order and
\* holds only candles with open time >= the startTime of its request.
WellBehaved ==
    \A i \in 1..Len(pages) :
        /\ StrictlyIncreasing(pages[i])
        /\ \A k \in 1..Len(pages[i]) : pages[i][k] >= requests[i].startTime

\* C3: provided the pages are well behaved, the startTime of successive
\* requests is strictly increasing (no request is issued twice) and so are the
\* open times stored in all_data (no candle is stored twice).
C3_NothingRetried ==
    WellBehaved =>
        /\ StrictlyIncreasing([i \in 1..Len(requests) |-> requests[i].startTime])
        /\ StrictlyIncreasing(all_data)

\* Two well-behaved pages downloaded by two requests, three candles or more.
C3_Witness == WellBehaved /\ Len(pages) >= 2 /\ Len(pages[2]) >= 1 /\ Len(all_data) >= 3

\* The rows the requests logged so far should have produced: one per request
\* answered with a candle, in order.
RECURSIVE RowsOf(_)
RowsOf(log) ==
    IF log = <<>> THEN <<>>
    ELSE (IF Head(log).outcome = "ok" THEN <<<<Head(log).date, Head(log).close>>>> ELSE <<>>)
         \o RowsOf(Tail(log))

C4_SleepBetweenRequests ==
    \A i \in 1..(Len(events) - 1) : ~(events[i] = "req" /\ events[i + 1] = "req")

\* C5 as stated: after the scan the results hold one record for every window
\* size from 1 to min(W, N), and no other.
C5_OneRecordPerWindow ==
    scan_pc = "done" =>
        /\ Len(results) = Max(0, Min(max_window, Len(prices)))
        /\ \A i \in 1..Len(results) : results[i].Window_Minutes = i

\* C5, amended: after the scan the results hold one record for every window
\* size from 1 to min(W, N - 1), and no other: the window w = N has no return
\* and gets no record.
C5_OneRecordPerNonEmptyWindow ==
    scan_pc = "done" =>
        /\ Len(results) = Max(0, Min(max_window, Len(prices) - 1))
        /\ \A i \in 1..Len(results) : results[i].Window_Minutes = i

\* A finished scan that went through the window w = N.
C5_Witness ==
    scan_pc = "done" /\ Len(prices) >= 2 /\ max_window >= Len(prices) /\ Len(results) >= 1

\* C6: the returns of window w compare P[i] with P[i - w] for exactly the
\* indices w <= i < N, so every record has Sample_Count = N - w, strictly
\* decreasing in w.
C6_SampleCount ==
    /\ \A i \in 1..Len(results) :
        results[i].Sample_Count = Len(prices) - results[i].Window_Minutes
    /\ \A i \in 1..(Len(results) - 1) :
        /\ results[i].Window_Minutes < results[i + 1].Window_Minutes
        /\ results[i].Sample_Count > results[i + 1].Sample_Count
    /\ window > 1 =>
        /\ Len(returns) = Len(prices) - (window - 1)
        /\ \A i \in (window - 1)..(Len(prices) - 1) :
            returns[i - (window - 1) + 1] =
                RoundDiv((prices[i + 1] - prices[i - (window - 1) + 1]) * 100 * PctScale,
                         prices[i - (window - 1) + 1])

\* Two records or more, and the returns of a window above 1 just computed.
C6_Witness == Len(results) >= 2 /\ window > 2 /\ Len(returns) >= 1

\* C7: the window w = N - 1, when scanned, has a record with Sample_Count 1,
\* the single return as Mean_Pct and StdDev_Pct 0.0; statistics.stdev is only
\* called on two returns or more.
C7_SingleReturn ==
    LET N == Len(prices)
    IN  /\ \A i \in 1..Len(results) :
            results[i].Window_Minutes = N - 1 =>
                /\ results[i].Sample_Count = 1
                /\ results[i].Mean_Pct = PctReturn(prices[N], prices[1])
                /\ results[i].StdDev_Pct = 0
        /\ window > N - 1 /\ N - 1 >= 1 =>
            \E i \in 1..Len(results) : results[i].Window_Minutes = N - 1
        /\ \A c \in 1..Len(stdev_calls) : stdev_calls[c] >= 2

\* A scan that emitted the single-return record, with a return that is not 0,
\* after computing a standard deviation for a smaller window.
C7_Witness ==
    /\ stdev_calls /= <<>>
    /\ \E i \in 1..Len(results) :
        /\ results[i].Sample_Count = 1
        /\ results[i].Mean_Pct /= 0

\* C8: every volatility calculate_implied_volatility returns lies in
\* [0.001, 10.0], and in [0.001, 5.0] when the upper bound was not widened;
\* once an iteration has run, 0.001 <= vol_low <= vol_mid <= vol_high <= the
\* vol_high the bisection started with.
C8_VolatilityRange ==
    /\ iv_result.kind = "vol" =>
        /\ VolQ \div 1000 <= iv_result.val
        /\ iv_result.val <= 10 * VolQ
        /\ vol_high_0 = 5 * VolQ => iv_result.val <= 5 * VolQ
    /\ iv_i >= 1 =>
        /\ VolQ \div 1000 <= vol_low
        /\ vol_low <= vol_mid
        /\ vol_mid <= vol_high
        /\ vol_high <= vol_high_0
        /\ vol_high_0 \in {5 * VolQ, 10 * VolQ}

\* A volatility above 5.0 returned after a widening and two iterations or more.
C8_Witness ==
    /\ iv_pc = "returned"
    /\ iv_result.kind = "vol"
    /\ iv_result.val > 5 * VolQ
    /\ iv_i >= 2

\* C9: when market_price <= 0, S <= 0, K <= 0 or market_price is below the
\* intrinsic value, calculate_implied_volatility returns None, having
\* evaluated no pricer and run no iteration.
C9_NoneWithoutPricing ==
    LET intrinsic == IF option_type \in {"CALL", "call"}
                     THEN Max(iv_S - iv_K, 0)
                     ELSE Max(iv_K - iv_S, 0)
    IN  /\ iv_pc /= "start"
        /\ \/ market_price <= 0
           \/ iv_S <= 0
           \/ iv_K <= 0
           \/ market_price < intrinsic
        => /\ iv_pc = "returned"
           /\ iv_result = None
           /\ pricer_calls = <<>>
           /\ iv_i = 0

\* None returned for positive arguments and a market price below the
\* intrinsic value.
C9_Witness ==
    /\ iv_pc = "returned"
    /\ iv_result = None
    /\ market_price > 0 /\ iv_S > 0 /\ iv_K > 0
    /\ iv_S - iv_K > market_price

\* C10: T is floored to one hour, 1 / (365 * 24) years, which is positive,
\* before the checks, so that every pricer evaluation uses a time to expiry of
\* one hour or more, whatever T was passed.
C10_TimeFloor ==
    /\ RoundDiv(Q, 365 * 24) > 0
    /\ iv_pc /= "start" =>
        /\ iv_T >= RoundDiv(Q, 365 * 24)
        /\ iv_T >= iv_T_arg
    /\ \A c \in 1..Len(pricer_calls) : pricer_calls[c].T >= RoundDiv(Q, 365 * 24)

\* A bisection that ran for a T <= 0.
C10_Witness == iv_T_arg <= 0 /\ Len(pricer_calls) >= 3 /\ iv_i >= 1

\* C11: when the market price passes the early checks but is below the model
\* price at sigma = 0.001, calculate_implied_volatility returns exactly 0.001,
\* having priced the two ends of the interval only and run no iteration.
C11_LowBoundReturn ==
    /\ iv_pc \in {"bisect", "returned"}
    /\ pricer_calls /= <<>>
    /\ market_price < price_low
    => /\ iv_pc = "returned"
       /\ iv_result = [kind |-> "vol", val |-> VolQ \div 1000]
       /\ iv_i = 0
       /\ vol_mid = 0
       /\ Len(pricer_calls) = 2

\* 0.001 returned for a positive market price, not below the intrinsic value,
\* that is below the price at the low bound.
C11_Witness ==
    /\ iv_pc = "returned"
    /\ iv_result = [kind |-> "vol", val |-> VolQ \div 1000]
    /\ market_price > 0
    /\ market_price < price_low
    /\ Len(pricer_calls) = 2

\* C12: the bisection always terminates. It starts on [0.001, 5.0], widened
\* to [0.001, 10.0] exactly when the market price exceeds the model price at
\* 5.0; it runs at most max_iterations iterations, one pricer evaluation each;
\* it returns vol_mid at the first iteration whose |model price - market
\* price| is below the tolerance, and the midpoint of the final interval when
\* no iteration is.
C12_BisectionTerminates ==
    /\ <>(iv_pc = "returned")
    /\ [](LET n_bounds == IF vol_high_0 = 10 * VolQ THEN 3 ELSE 2
              error(j) == Abs(Price(option_type, iv_S, iv_K, iv_T, iv_r,
                                    pricer_calls[n_bounds + j].sigma) - market_price)
          IN  pricer_calls /= <<>> /\ market_price >= price_low =>
                /\ pricer_calls[1].sigma = VolQ \div 1000
                /\ pricer_calls[2].sigma = 5 * VolQ
                /\ vol_high_0 \in {5 * VolQ, 10 * VolQ}
                /\ vol_high_0 = 10 * VolQ <=>
                       market_price > Price(option_type, iv_S, iv_K, iv_T, iv_r, 5 * VolQ)
                /\ vol_high_0 = 10 * VolQ => pricer_calls[3].sigma = 10 * VolQ
                /\ iv_i <= max_iterations
                /\ Len(pricer_calls) = n_bounds + iv_i
                /\ \A j \in 1..(iv_i - 1) : error(j) >= tolerance
                /\ iv_pc = "bisect" => \A j \in 1..iv_i : error(j) >= tolerance
                /\ iv_pc = "returned" =>
                       IF iv_i >= 1 /\ error(iv_i) < tolerance
                       THEN /\ iv_result = [kind |-> "vol", val |-> vol_mid]
                            /\ vol_mid = pricer_calls[n_bounds + iv_i].sigma
                       ELSE /\ iv_i = max_iterations
                            /\ iv_result = [kind |-> "vol",
                                            val |-> (vol_low + vol_high) \div 2])

\* vol_mid returned by an iteration within the tolerance, before the
\* iterations are used up and after an iteration that was not.
C12_Witness ==
    /\ iv_pc = "returned"
    /\ iv_result = [kind |-> "vol", val |-> vol_mid]
    /\ iv_i >= 2
    /\ iv_i < max_iterations

\* The sensitivity of the call price to sigma at r = 0: S * sqrt(T) * pdf(d1).
Vega(S, K, T, sigma) ==
    LET sqrt_T == FxSqrt(T)
        d1 == FxDiv(FxLn(FxDiv(S, K)) + FxMul(FxMul(sigma, sigma) \div 2, T),
                    FxMul(sigma, sqrt_T))
    IN  FxMul(FxMul(S, sqrt_T), normal_pdf(d1))

C14_PutCallParity ==
    pr_pc = "done" /\ pr_fn = "black_scholes_put" /\ pr_result.kind = "value" =>
        /\ pr_call.kind = "value"
        /\ pr_impl \in {"calculator", "okx"} =>
               pr_call.val - pr_result.val
                   = pr_S - FxMul(pr_K, FxExp(-FxMul(pr_r, pr_T)))
        /\ pr_impl = "no_rate" => pr_call.val - pr_result.val = pr_S - pr_K

\* A put priced by the calculator for positive arguments and a rate that is
\* not 0.
C14_Witness ==
    /\ pr_pc = "done"
    /\ pr_fn = "black_scholes_put"
    /\ pr_impl = "calculator"
    /\ pr_result.kind = "value"
    /\ pr_S > 0 /\ pr_K > 0 /\ pr_T > 0 /\ pr_sigma > 0 /\ pr_r > 0
    /\ pr_S /= pr_K
    /\ pr_result.val > 0

\* C15 as stated: for every T <= 0, every r and every sigma (and positive S
\* and K), a call pricer returns max(S - K, 0) and a put pricer returns
\* max(K - S, 0).
C15_IntrinsicAtExpiry ==
    pr_pc = "done" /\ pr_T <= 0 /\ pr_S > 0 /\ pr_K > 0 =>
        /\ pr_fn = "black_scholes_call" =>
               pr_result = [kind |-> "value", val |-> Max(pr_S - pr_K, 0)]
        /\ pr_fn = "black_scholes_put" =>
               pr_result = [kind |-> "value", val |-> Max(pr_K - pr_S, 0)]

\* C16 as stated: for T > 0 and positive S and K, the call pricer of every
\* file returns max(S - K, 0) at sigma = 0, and does not raise.
C16_ZeroVolatility ==
    /\ pr_pc = "done"
    /\ pr_fn = "black_scholes_call"
    /\ pr_T > 0 /\ pr_S > 0 /\ pr_K > 0
    /\ pr_sigma = 0
    => pr_result = [kind |-> "value", val |-> Max(pr_S - pr_K, 0)]

\* C17 as stated: for T > 0 and sigma > 0, a call pricer called with S <= 0
\* or K <= 0 returns a value and does not raise.
C17_DomainViolationReturns ==
    /\ pr_pc = "done"
    /\ pr_fn = "black_scholes_call"
    /\ pr_T > 0 /\ pr_sigma > 0
    /\ pr_S <= 0 \/ pr_K <= 0
    => pr_result.kind = "value"

\* C18 as stated: for T > 0, sigma > 0 and positive S and K, the call pricer
\* of black_scholes_option_calculator.py and the call pricer of
\* fetch_okx_eth_options.py return the same price, for every rate r.
C18_SameCallPrice ==
    /\ pr_pc = "done"
    /\ pr_fn = "black_scholes_call"
    /\ pr_impl = "calculator"
    /\ pr_T > 0 /\ pr_sigma > 0 /\ pr_S > 0 /\ pr_K > 0
    => pr_result = [kind |-> "value",
                    val |-> black_scholes_call(pr_S, pr_K, pr_T, pr_r, pr_sigma)]

\* C19: the CDF approximation is symmetric, normal_cdf(-x) = 1 - normal_cdf(x)
\* for every x, and normal_cdf(0) is 0.5, both to the last digit kept.
C19_CdfSymmetry ==
    pr_pc = "done" /\ pr_fn = "normal_cdf" =>
        /\ pr_result.kind = "value"
        /\ Abs(normal_cdf(-pr_x) - (Q - pr_result.val)) <= 1
        /\ pr_x = 0 => Abs(pr_result.val - Q \div 2) <= 1

\* normal_cdf of a negative x, strictly between 0 and 0.5.
C19_Witness ==
    /\ pr_pc = "done"
    /\ pr_fn = "normal_cdf"
    /\ pr_x < 0
    /\ pr_result.kind = "value"
    /\ pr_result.val > 0
    /\ pr_result.val < Q \div 2 - 1

\* C20: expected_call_intrinsic_normal returns max(S0 - K, 0) whenever T <= 0
\* or the price standard deviation S0 * sigma * sqrt(T) is 0, and
\* expected_put_intrinsic_normal returns max(K - S0, 0) in the same cases; in
\* every case the result is 0 or more.
C20_ExpectedIntrinsicEdges ==
    LET plain == pr_T <= 0 \/ FxMul(FxMul(pr_S, pr_sigma), FxSqrt(pr_T)) = 0
    IN  /\ pr_pc = "done" /\ pr_fn = "expected_call_intrinsic_normal" =>
            /\ pr_result.kind = "value"
            /\ pr_result.val >= 0
            /\ plain => pr_result.val = Max(pr_S - pr_K, 0)
        /\ pr_pc = "done" /\ pr_fn = "expected_put_intrinsic_normal" =>
            /\ pr_result.kind = "value"
            /\ pr_result.val >= 0
            /\ plain => pr_result.val = Max(pr_K - pr_S, 0)

\* The plain intrinsic value of a call in the money, returned for T > 0 and
\* sigma = 0.
C20_Witness ==
    /\ pr_pc = "done"
    /\ pr_fn = "expected_call_intrinsic_normal"
    /\ pr_T > 0
    /\ pr_sigma = 0
    /\ pr_S > pr_K
    /\ pr_K > 0
    /\ pr_result = [kind |-> "value", val |-> pr_S - pr_K]

\* C21: every pricing and estimation function, expected_call_price_at_half_T
\* included, leaves the process-global state unchanged: the state of the
\* global random number generator after a call is the state before it.
C21_NoGlobalStateChange == [][np_random_state' = np_random_state]_vars

\* The fields each script reads of a row.
FieldsRead == IF loader = "minute" THEN Columns ELSE {"Close", "Open Time (UTC)"}

\* A malformed row: a field the script reads is missing (not in the header,
\* or None) or, for a price, unparseable.
Malformed(row) ==
    \E c \in FieldsRead :
        \/ c \notin fieldnames
        \/ row[c].none
        \/ c /= "Open Time (UTC)" /\ row[c].text \notin Numerals

\* The number of rows read so far that are not malformed.
WellFormedRead == Cardinality({i \in 1..row_i : ~Malformed(csv_rows[i])})

\* C22: in both CSV loaders a malformed row is skipped: it contributes to
\* none of the lists, the parallel lists stay equal in length after every
\* row, and loading goes on without raising. (A row whose Open parses to 0 is
\* not malformed; rows after one are left out of the statement.)
C22_MalformedRowSkipped ==
    (\A i \in 1..row_i : csv_rows[i]["Open"] /= Text("0")) =>
        /\ Len(price_changes) = Len(data_rows)
        /\ Len(prices) = Len(timestamps)
        /\ ld_pc /= "raised"
        /\ loader = "minute" => Len(price_changes) = WellFormedRead
        /\ loader = "multi" => Len(prices) = WellFormedRead

\* The spellings of the two option types, in any case.
CallSpellings == {"C", "c", "CALL", "call", "Call"}

PutSpellings == {"P", "p", "PUT", "put", "Put"}

\* C23: filter_option returns True iff the type is C/CALL and strike >=
\* 0.99 * spot, or the type is P/PUT and strike <= 1.01 * spot, in any case
\* of the letters, and False for every other option type.
C23_FilterOption ==
    fo_pc = "done" =>
        fo_result = (\/ /\ fo_option_type \in CallSpellings
                        /\ fo_strike * 100 >= fo_spot_price * 99
                     \/ /\ fo_option_type \in PutSpellings
                        /\ fo_strike * 100 <= fo_spot_price * 101)

\* filter_option kept a call in the money within 1% of the spot, given in
\* lower case.
C23_Witness ==
    /\ fo_pc = "done"
    /\ fo_result
    /\ fo_option_type = "call"
    /\ fo_strike < fo_spot_price

\* C24: every record of fetch_all_eth_options carries its true moneyness:
\* "ITM" iff it is a call with strike < spot or a put with strike > spot,
\* "OTM" otherwise, for each of the spellings "C", "CALL", "P", "PUT".
C24_TrueMoneyness ==
    \A i \in 1..Len(options_data) :
        LET record == options_data[i]
            in_the_money ==
                \/ record.option_type \in {"C", "CALL"} /\ record.strike < record.spot_price
                \/ record.option_type \in {"P", "PUT"} /\ record.strike > record.spot_price
        IN  record.moneyness = IF in_the_money THEN "ITM" ELSE "OTM"

\* The conditions of C25 on the locals of an iteration.
PassesFilter(inst) ==
    /\ inst.shape /= "noid"
    /\ filter_option(spot_price, parse_option_symbol(inst).strike,
                     parse_option_symbol(inst).option_type)

Positive(answer) == answer.kind = "num" /\ answer.val > 0

\* C25: every record returned by fetch_all_eth_options passes filter_option
\* for the fetched spot price and has bidVol > 0 (stored as bidVol / 100),
\* mark_price > 0, bid_price > 0 and bid_price different from 0.000100; an
\* instrument failing one of the conditions adds nothing to the list; the
\* mark-price request is made only after the filter and the bidVol check
\* passed, and the ticker request only after the mark price passed too.
C25_RecordsPassEveryFilter ==
    /\ [](\A i \in 1..Len(options_data) :
            LET record == options_data[i]
            IN  /\ record.spot_price = spot_price
                /\ filter_option(spot_price, record.strike, record.option_type)
                /\ record.implied_volatility > 0
                /\ record.mark_price > 0
                /\ record.bid_price > 0
                /\ record.bid_price /= 100)
    /\ [][opt_i' = opt_i + 1 =>
            LET asks_mark == PassesFilter(instrument') /\ Positive(summary')
                asks_ticker == asks_mark /\ Positive(mark_price_data')
                appends == asks_ticker /\ Positive(ticker') /\ ticker'.val /= 100
                requested == SelectSeq(SubSeq(events', Len(events) + 1, Len(events')),
                                       LAMBDA e : e = "req")
            IN  /\ (mark_price_data' /= Unassigned) = asks_mark
                /\ (ticker' /= Unassigned) = asks_ticker
                /\ Len(requested) = (IF asks_mark THEN 1 ELSE 0)
                                        + (IF asks_ticker THEN 1 ELSE 0)
                /\ ~appends => options_data' = options_data
                /\ appends =>
                    /\ Len(options_data') = Len(options_data) + 1
                    /\ SubSeq(options_data', 1, Len(options_data)) = options_data
                    /\ Last(options_data').implied_volatility = summary'.val \div 100
                    /\ Last(options_data').mark_price = mark_price_data'.val
                    /\ Last(options_data').bid_price = ticker'.val]_vars

\* After a record was appended, an instrument passed every check up to the
\* ticker, and was dropped for its bid price of 0.000100.
C25_Witness ==
    /\ Len(options_data) = 1
    /\ opt_i = 2
    /\ ticker.kind = "num"
    /\ ticker.val = 100

\* A lookup that found a price: no exception, code "0", a first entry whose
\* last parses to a positive price.
LookupSucceeds(answer) ==
    /\ answer.kind = "json"
    /\ answer.code = "0"
    /\ answer.data = "list"
    /\ answer.last \in Numerals
    /\ float(answer.last) > 0

\* C26: get_eth_spot_price tries ETH-USDT first and, if that lookup fails for
\* any reason (error response, non-positive price, exception), then tries
\* ETH-USD; it returns None only if both lookups fail.
C26_FallbackOnAnyFailure ==
    sp_pc = "returned" =>
        /\ sp_requests /= <<>>
        /\ sp_requests[1] = "ETH-USDT"
        /\ ~LookupSucceeds(sp_answers[1]) =>
            /\ Len(sp_requests) = 2
            /\ sp_requests[2] = "ETH-USD"
        /\ sp_result = None =>
            /\ Len(sp_answers) = 2
            /\ ~LookupSucceeds(sp_answers[1])
            /\ ~LookupSucceeds(sp_answers[2])

\* C27: when every non-empty page ends with a candle at or after the
\* startTime asked for, fetch_daily_klines and fetch_minute_klines terminate:
\* current_start strictly increases on each successful iteration, and the
\* loop ends as soon as current_start >= end_ms, a page is empty (all_data
\* left as it is), or a request fails.
C27_DownloadTerminates ==
    /\ <>(dl_pc = "returned")
    /\ [][/\ (Len(pages') > Len(pages) /\ Last(pages') /= <<>>) =>
                /\ current_start' > current_start
                /\ current_start' > Last(requests').startTime
          /\ (Len(pages') > Len(pages) /\ Last(pages') = <<>>) =>
                /\ dl_pc' = "returned"
                /\ all_data' = all_data
          /\ (dl_failed' /\ ~dl_failed) => dl_pc' = "returned"
          /\ (dl_pc = "loop" /\ current_start >= end_ms) =>
                /\ dl_pc' = "returned"
                /\ requests' = requests]_vars

\* A download that took two pages to get past end_ms and returned.
C27_Witness ==
    /\ dl_pc = "returned"
    /\ Len(pages) = 2
    /\ pages[2] /= <<>>
    /\ ~dl_failed
    /\ current_start >= end_ms

\* The market price lies between the model prices at the ends lo and hi.
Brackets(lo, hi) ==
    /\ Price(option_type, iv_S, iv_K, iv_T, iv_r, lo) <= market_price
    /\ market_price <= Price(option_type, iv_S, iv_K, iv_T, iv_r, hi)

\* C28: if price(vol_low) <= market_price <= price(vol_high) holds when the
\* bisection loop starts, it holds after every iteration, and each iteration
\* that does not return halves vol_high - vol_low exactly.
C28_BracketKept ==
    /\ []((iv_pc = "bisect" /\ Brackets(VolLow, vol_high_0)) => Brackets(vol_low, vol_high))
    /\ [][(iv_pc = "bisect" /\ iv_pc' = "bisect") =>
            2 * (vol_high' - vol_low') = vol_high - vol_low]_vars

\* A bisection that started with the market price bracketed and has moved
\* both ends of the interval.
C28_Witness ==
    /\ iv_pc = "bisect"
    /\ Brackets(VolLow, vol_high_0)
    /\ iv_i >= 2
    /\ vol_low > VolLow
    /\ vol_high < vol_high_0

\* The market price is above the model price at the widened bound 10.0.
AboveWidened ==
    /\ iv_pc \in {"bisect", "returned"}
    /\ vol_high_0 = VolHighWide
    /\ market_price > price_high

\* The midpoint of the n + 1st iteration when every iteration before it
\* moved vol_low: 10.0 - (10.0 - 0.001) / 2^(n + 1).
MidpointAfter(n) == VolHighWide - (VolHighWide - VolLow) \div 2 ^ (n + 1)

\* The distance of the model price at the returned volatility from the
\* market price.
ReturnedError ==
    Abs(Price(option_type, iv_S, iv_K, iv_T, iv_r, iv_result.val) - market_price)

\* C29, as the specification states it: for inputs that pass the pre-checks
\* calculate_implied_volatility returns a number, never None; when the
\* market price is above the model price at the widened bound 10.0, vol_high
\* stays at 10.0 and the volatility returned is the final midpoint, whose
\* model price differs from the market price by more than the tolerance.
C29_FinalMidpointOffMarket ==
    /\ (iv_pc = "returned" /\ ~ReturnsNone(market_price, iv_S, iv_K, iv_T, option_type))
            => iv_result.kind = "vol"
    /\ AboveWidened => vol_high = VolHighWide
    /\ (iv_pc = "returned" /\ AboveWidened) =>
            /\ iv_result = Vol(MidpointAfter(max_iterations))
            /\ ReturnedError > tolerance

\* C29, amended: for inputs that pass the pre-checks
\* calculate_implied_volatility returns a number, never None; when the
\* market price is above the model price at the widened bound 10.0, vol_high
\* stays at 10.0 and the volatility returned is a midpoint of an interval
\* that ends at 10.0: when the market price is above the price at 10.0 by
\* the tolerance or more it is the final midpoint, and its model price
\* differs from the market price by at least the tolerance; when it is above
\* by less than the tolerance it is either an earlier midpoint, whose model
\* price is within the tolerance, or the final one, whose price was never
\* compared.
C29_ReturnsMidpoint ==
    /\ (iv_pc = "returned" /\ ~ReturnsNone(market_price, iv_S, iv_K, iv_T, option_type))
            => iv_result.kind = "vol"
    /\ AboveWidened => vol_high = VolHighWide
    /\ (iv_pc = "returned" /\ AboveWidened) =>
            IF market_price - price_high >= tolerance
            THEN /\ iv_result = Vol(MidpointAfter(max_iterations))
                 /\ ReturnedError >= tolerance
            ELSE \/ iv_result = Vol(MidpointAfter(max_iterations))
                 \/ /\ iv_i <= max_iterations
                    /\ iv_result = Vol(MidpointAfter(iv_i - 1))
                    /\ ReturnedError < tolerance

\* The solver has used all MaxIter iterations on a market price far above
\* the price at 10.0 and returned the final midpoint.
C29_Witness ==
    /\ iv_pc = "returned"
    /\ AboveWidened
    /\ market_price - price_high >= tolerance
    /\ max_iterations = MaxIter
    /\ iv_i = MaxIter
    /\ iv_result = Vol(MidpointAfter(MaxIter))

\* The solver has returned an earlier midpoint, within the tolerance of a
\* market price above the price at 10.0.
C29_EarlyReturn ==
    /\ iv_pc = "returned"
    /\ AboveWidened
    /\ iv_i < max_iterations
    /\ iv_result.kind = "vol"

\* C30: the results list is contiguous from window 1: the record at the
\* 0-based index i has Window_Minutes = i + 1 (here results[i + 1], the
\* sequence being 1-based), so every key-window lookup results[kw - 1] made
\* under kw <= len(results) gives the record whose Window_Minutes is kw.
C30_ContiguousResults ==
    /\ \A i \in 0..(Len(results) - 1) : results[i + 1].Window_Minutes = i + 1
    /\ \A j \in 1..Len(report) : report[j].result.Window_Minutes = report[j].kw

\* The report has looked up the key windows 1 and 5.
C30_Witness ==
    /\ scan_pc = "done"
    /\ Len(report) >= 2
    /\ report[Len(report)].kw = 5

============================================================================
